---- MODULE Spec2Model ----
(***************************************************************************)
(* SOC Assist: the incident evaluation engine (app/core/engine.py).        *)
(*                                                                         *)
(* Decimal quantities are scaled integers: weights and multipliers in      *)
(* thousandths, scores returned by round(x, 2) in hundredths.  The float   *)
(* arithmetic between two roundings is carried out in binary64, as CPython *)
(* does, because the order of the operations decides ties.                 *)
(***************************************************************************)
EXTENDS Integers, Sequences, FiniteSets, TLC

(***************************************************************************)
(* Python floats are IEEE-754 binary64.  Natural numbers wider than TLC's  *)
(* integers are little-endian sequences of limbs in base 2^15.             *)
(***************************************************************************)
Limb == [bits |-> 15, base |-> 2 ^ 15]
MantBits == 53

Rest(a) == IF a = <<>> THEN <<>> ELSE Tail(a)
Low(a) == IF a = <<>> THEN 0 ELSE Head(a)

RECURSIVE BigTrim(_)
BigTrim(a) ==
    IF a = <<>> THEN a
    ELSE IF a[Len(a)] = 0 THEN BigTrim(SubSeq(a, 1, Len(a) - 1)) ELSE a

RECURSIVE BigFromNat(_)
BigFromNat(n) == IF n = 0 THEN <<>> ELSE <<n % Limb.base>> \o BigFromNat(n \div Limb.base)

RECURSIVE BigToNat(_)
BigToNat(a) == IF a = <<>> THEN 0 ELSE Head(a) + Limb.base * BigToNat(Tail(a))

RECURSIVE BigAddC(_, _, _)
BigAddC(a, b, c) ==
    IF a = <<>> /\ b = <<>> THEN (IF c = 0 THEN <<>> ELSE <<c>>)
    ELSE LET s == Low(a) + Low(b) + c
         IN  <<s % Limb.base>> \o BigAddC(Rest(a), Rest(b), s \div Limb.base)

BigAdd(a, b) == BigAddC(a, b, 0)

RECURSIVE BigSubB(_, _, _)
BigSubB(a, b, br) ==
    IF a = <<>> THEN <<>>
    ELSE LET d == Head(a) - Low(b) - br
         IN  IF d < 0 THEN <<d + Limb.base>> \o BigSubB(Tail(a), Rest(b), 1)
             ELSE <<d>> \o BigSubB(Tail(a), Rest(b), 0)

BigSub(a, b) == BigTrim(BigSubB(a, b, 0))

RECURSIVE BigCmpAt(_, _, _)
BigCmpAt(a, b, i) ==
    IF i = 0 THEN 0
    ELSE IF a[i] < b[i] THEN -1
    ELSE IF a[i] > b[i] THEN 1
    ELSE BigCmpAt(a, b, i - 1)

BigCmp(a, b) ==
    IF Len(a) < Len(b) THEN -1
    ELSE IF Len(a) > Len(b) THEN 1
    ELSE BigCmpAt(a, b, Len(a))

RECURSIVE BigMulSmallC(_, _, _)
BigMulSmallC(a, k, c) ==
    IF a = <<>> THEN (IF c = 0 THEN <<>> ELSE <<c>>)
    ELSE LET p == Head(a) * k + c
         IN  <<p % Limb.base>> \o BigMulSmallC(Tail(a), k, p \div Limb.base)

BigMulSmall(a, k) == IF k = 0 THEN <<>> ELSE BigMulSmallC(a, k, 0)

BigShiftLimbs(a, q) == IF a = <<>> THEN <<>> ELSE [i \in 1..q |-> 0] \o a

RECURSIVE BigMul(_, _)
BigMul(a, b) ==
    IF b = <<>> THEN <<>>
    ELSE BigAdd(BigMulSmall(a, Head(b)), BigShiftLimbs(BigMul(a, Tail(b)), 1))

RECURSIVE BigDivRem(_, _)
BigDivRem(a, k) ==
    IF a = <<>> THEN << <<>>, 0 >>
    ELSE LET hi  == BigDivRem(Tail(a), k)
             cur == hi[2] * Limb.base + Head(a)
         IN  << <<cur \div k>> \o hi[1], cur % k >>

BigDivSmall(a, k) == LET qr == BigDivRem(a, k) IN << BigTrim(qr[1]), qr[2] >>

RECURSIVE BitLenSmall(_)
BitLenSmall(n) == IF n = 0 THEN 0 ELSE 1 + BitLenSmall(n \div 2)

BigBitLen(a) ==
    IF a = <<>> THEN 0 ELSE Limb.bits * (Len(a) - 1) + BitLenSmall(a[Len(a)])

BigShl(a, d) == BigShiftLimbs(BigMulSmall(a, 2 ^ (d % Limb.bits)), d \div Limb.bits)

BigShr(a, d) ==
    LET q == d \div Limb.bits
    IN  IF q >= Len(a) THEN <<>>
        ELSE BigDivSmall(SubSeq(a, q + 1, Len(a)), 2 ^ (d % Limb.bits))[1]

BigBit(a, i) ==
    LET l == i \div Limb.bits + 1
    IN  IF l > Len(a) THEN 0 ELSE (a[l] \div (2 ^ (i % Limb.bits))) % 2

BigLowZero(a, d) ==
    LET q == d \div Limb.bits
    IN  /\ \A i \in 1..q : i > Len(a) \/ a[i] = 0
        /\ q + 1 > Len(a) \/ a[q + 1] % (2 ^ (d % Limb.bits)) = 0

\* N / 2^d rounded to the nearest integer, ties to even (d >= 1)
BigRoundShr(N, d) ==
    LET q == BigShr(N, d)
    IN  IF BigBit(N, d - 1) = 1 /\ (~BigLowZero(N, d - 1) \/ BigBit(N, d) = 1)
        THEN BigAdd(q, <<1>>) ELSE q

FZero == [sg |-> 0, m |-> <<>>, e |-> 0]

\* the binary64 nearest to (-1)^sg * N * 2^e
FNorm(sg, N, e) ==
    LET L == BigBitLen(N)
    IN  IF L = 0 THEN FZero
        ELSE IF L <= MantBits
        THEN [sg |-> sg, m |-> BigShl(N, MantBits - L), e |-> e - (MantBits - L)]
        ELSE LET d == L - MantBits
                 r == BigRoundShr(N, d)
             IN  IF BigBitLen(r) > MantBits
                 THEN [sg |-> sg, m |-> BigShr(r, 1), e |-> e + d + 1]
                 ELSE [sg |-> sg, m |-> r, e |-> e + d]

FMul(a, b) ==
    IF a.m = <<>> \/ b.m = <<>> THEN FZero
    ELSE FNorm((a.sg + b.sg) % 2, BigMul(a.m, b.m), a.e + b.e)

FAdd(a, b) ==
    IF a.m = <<>> THEN b
    ELSE IF b.m = <<>> THEN a
    ELSE LET lo == IF a.e < b.e THEN a.e ELSE b.e
             A  == BigShl(a.m, a.e - lo)
             B  == BigShl(b.m, b.e - lo)
             c  == BigCmp(A, B)
         IN  IF a.sg = b.sg THEN FNorm(a.sg, BigAdd(A, B), lo)
             ELSE IF c = 0 THEN FZero
             ELSE IF c > 0 THEN FNorm(a.sg, BigSub(A, B), lo)
             ELSE FNorm(b.sg, BigSub(B, A), lo)

Abs(n) == IF n < 0 THEN -n ELSE n

\* the binary64 nearest to n / d for ints n, d (d > 0): the quotient of
\* n * 2^80 by d, with a sticky bit for a remainder
FDivInt(n, d) ==
    IF n = 0 THEN FZero
    ELSE LET qr == BigDivSmall(BigShl(BigFromNat(Abs(n)), 80), d)
         IN  FNorm(IF n < 0 THEN 1 ELSE 0,
                   IF qr[2] = 0 THEN qr[1] ELSE BigAdd(BigMulSmall(qr[1], 2), <<1>>),
                   IF qr[2] = 0 THEN -80 ELSE -81)

\* the binary64 nearest to the decimal n / 10^k  (0 <= k <= 4)
FromDec(n, k) == FDivInt(n, 10 ^ k)

\* round(x, nd) as the integer d with round(x, nd) = d / 10^nd
RoundDec(x, nd) ==
    IF x.m = <<>> THEN 0
    ELSE LET N == BigMulSmall(x.m, 10 ^ nd)
             D == IF x.e >= 0 THEN BigShl(N, x.e) ELSE BigRoundShr(N, -x.e)
         IN  IF x.sg = 1 THEN -BigToNat(D) ELSE BigToNat(D)

FNeg(a) == IF a.m = <<>> THEN a ELSE [a EXCEPT !.sg = 1 - @]

FSub(a, b) == FAdd(a, FNeg(b))

FAbs(a) == [a EXCEPT !.sg = 0]

\* a < b
FLess(a, b) ==
    LET d == FSub(a, b) IN d.m # <<>> /\ d.sg = 1

(***************************************************************************)
(* Configuration documents: config_engine.json and questions.json, as      *)
(* parsed by load_json_file.  A JSON object whose key order the code       *)
(* relies on (thresholds) is a sequence of entries.                        *)
(***************************************************************************)

\* canonical classifications, least to most severe
CLASSIFICATION_ORDER == <<"informativo", "sospechoso", "incidente", "critico", "brecha">>

Threshold(key, lo, hi) == [key |-> key, min |-> lo, max |-> hi]
Condition(qid, value) == [question_id |-> qid, value |-> value]
Option(value, score) == [value |-> value, score |-> score]

\* the tiers partition the integer scores
ThresholdsShipped ==
    << Threshold("informativo", 0, 10), Threshold("sospechoso", 11, 20),
       Threshold("incidente", 21, 30), Threshold("critico", 31, 40),
       Threshold("brecha", 41, 9999) >>

\* after update_thresholds: neighbouring ranges overlap, the top range is capped
ThresholdsOverlapping ==
    << Threshold("informativo", 0, 15), Threshold("sospechoso", 10, 25),
       Threshold("incidente", 20, 35), Threshold("critico", 30, 45),
       Threshold("brecha", 40, 60) >>

\* after update_thresholds: no range holds the scores between 10 and 25
ThresholdsWithGap ==
    << Threshold("informativo", 0, 5), Threshold("sospechoso", 6, 10),
       Threshold("incidente", 25, 30), Threshold("critico", 31, 40),
       Threshold("brecha", 41, 50) >>

ThresholdTables == {ThresholdsShipped, ThresholdsOverlapping, ThresholdsWithGap}

Recommendations ==
    [informativo |-> "monitor", sospechoso |-> "review", incidente |-> "respond",
     critico |-> "escalate", brecha |-> "activate_ir"]

\* question catalog; q_003 has no "weight" and its option "no" has no "score"
QuestionsUnit ==
    << [id |-> "q_001", module |-> "red", text |-> "t1", weight |-> 1000,
        options |-> <<Option("yes", 10), Option("no", 0)>>],
       [id |-> "q_002", module |-> "red", text |-> "t2", weight |-> 1000,
        options |-> <<Option("yes", -4), Option("no", 5)>>],
       [id |-> "q_003", module |-> "identidad", text |-> "t3",
        options |-> <<Option("yes", 7), [value |-> "no"]>>] >>

\* the same catalog after calibration runs and manual weight edits
QuestionsTuned ==
    << [id |-> "q_001", module |-> "red", text |-> "t1", weight |-> 850,
        options |-> <<Option("yes", 10), Option("no", 0)>>],
       [id |-> "q_002", module |-> "red", text |-> "t2", weight |-> 1300,
        options |-> <<Option("yes", -4), Option("no", 5)>>],
       [id |-> "q_003", module |-> "identidad", text |-> "t3", weight |-> 2105,
        options |-> <<Option("yes", 7), [value |-> "no"]>>] >>

ModuleWeightsUnit == [m \in {"red", "identidad"} |-> 1000]
\* "identidad" has no entry: the engine defaults it to 1.0
ModuleWeightsTuned == [m \in {"red"} |-> 1500]

WeightSets ==
    { [questions |-> QuestionsUnit, module_weights |-> ModuleWeightsUnit],
      [questions |-> QuestionsTuned, module_weights |-> ModuleWeightsTuned] }

HardRulesNone == <<>>

HardRulesBreach ==
    << [id |-> "hr_breach", conditions |-> <<Condition("q_001", "yes")>>,
        classification |-> "brecha", override_message |-> "breach"] >>

\* the later rule is the more severe one; hr_low has no "override_message"
HardRulesOrdered ==
    << [id |-> "hr_low", conditions |-> <<Condition("q_002", "no")>>,
        classification |-> "sospechoso"],
       [id |-> "hr_high",
        conditions |-> <<Condition("q_001", "yes"), Condition("q_002", "no")>>,
        classification |-> "critico", override_message |-> "critical"],
       [id |-> "hr_stale", conditions |-> <<Condition("q_900", "zz")>>,
        classification |-> "incidente", override_message |-> "stale"] >>

HardRuleLists == {HardRulesNone, HardRulesBreach, HardRulesOrdered}

MultipliersNone == <<>>

MultipliersTwo ==
    << [id |-> "m_q2", conditions |-> <<Condition("q_002", "no")>>, multiplier |-> 1500],
       [id |-> "m_q1", conditions |-> <<Condition("q_001", "yes")>>, multiplier |-> 2000] >>

MultipliersThree ==
    << [id |-> "m_a", conditions |-> <<Condition("q_001", "yes")>>, multiplier |-> 1050],
       [id |-> "m_b", conditions |-> <<Condition("q_002", "no")>>, multiplier |-> 1250],
       [id |-> "m_c",
        conditions |-> <<Condition("q_001", "yes"), Condition("q_002", "no")>>,
        multiplier |-> 1400] >>

MultiplierLists == {MultipliersNone, MultipliersTwo, MultipliersThree}

\* IncidentEngine.__init__: the fields of the engine built from the two documents
EngineConfigs ==
    { [module_weights |-> w.module_weights, thresholds |-> t, multiplier_rules |-> m,
       hard_rules |-> h, recommendations |-> Recommendations, questions |-> w.questions] :
      w \in WeightSets, t \in ThresholdTables, h \in HardRuleLists, m \in MultiplierLists }

(***************************************************************************)
(* Inputs of evaluate: a dict of question id -> selected value, in         *)
(* insertion order.  "q_900" is in no catalog, "zz" is no option.          *)
(***************************************************************************)
MaxAnswers == 2
QuestionIds == {"q_001", "q_002", "q_003", "q_900"}
Values == {"yes", "no", "zz"}

Keys(answers) == {answers[i].qid : i \in 1..Len(answers)}

RECURSIVE AnswerDicts(_)
AnswerDicts(n) ==
    IF n = 0 THEN {<<>>}
    ELSE LET shorter == AnswerDicts(n - 1)
         IN  shorter \cup
             UNION { { Append(a, [qid |-> q, value |-> v]) :
                         q \in QuestionIds \ Keys(a), v \in Values } :
                     a \in {s \in shorter : Len(s) = n - 1} }

\* scores handed to _classify, in hundredths: -2.00 .. 66.00 in steps of 0.25
ClassifyScores == {25 * k : k \in -8..264}

(***************************************************************************)
(* IncidentEngine.  `self` is the engine: a record of the fields set by    *)
(* __init__.  None is the record NoneValue.                                *)
(***************************************************************************)
NoneValue == [none |-> TRUE]

Min(S) == CHOOSE x \in S : \A y \in S : x <= y
Max(S) == CHOOSE x \in S : \A y \in S : x >= y

\* answers.get(qid) == value, for a string value
AnswerIs(answers, qid, value) ==
    \E i \in 1..Len(answers) : answers[i].qid = qid /\ answers[i].value = value

\* all(answers.get(c["question_id"]) == c["value"] for c in rule["conditions"])
RuleMatches(rule, answers) ==
    \A i \in 1..Len(rule.conditions) :
        AnswerIs(answers, rule.conditions[i].question_id, rule.conditions[i].value)

\* questions_map = {q["id"]: q for q in questions}: the last question of an id
InQuestionsMap(self, qid) ==
    \E i \in 1..Len(self.questions) : self.questions[i].id = qid

QuestionsMap(self, qid) ==
    self.questions[Max({i \in 1..Len(self.questions) : self.questions[i].id = qid})]

OptionsOf(question) == IF "options" \in DOMAIN question THEN question.options ELSE <<>>

\* the score is taken as a magnitude: float(abs(opt.get("score", 0)))
_get_raw_score_Magnitude(question, value) ==
    LET opts == OptionsOf(question)
        hits == {i \in 1..Len(opts) : opts[i].value = value}
        s    == IF hits = {} THEN 0
                ELSE IF "score" \in DOMAIN opts[Min(hits)] THEN opts[Min(hits)].score ELSE 0
    IN  IF s < 0 THEN -s ELSE s

\* an unrecognized value takes the score of the question's first option
_get_raw_score_FirstOption(question, value) ==
    LET opts == OptionsOf(question)
        hits == {i \in 1..Len(opts) : opts[i].value = value}
        pick == IF hits = {} THEN 1 ELSE Min(hits)
    IN  IF opts = <<>> THEN 0
        ELSE IF "score" \in DOMAIN opts[pick] THEN opts[pick].score ELSE 0

\* a recognized option always scores: its score, or 1 for a score of 0
_get_raw_score_AtLeastOne(question, value) ==
    LET opts == OptionsOf(question)
        hits == {i \in 1..Len(opts) : opts[i].value = value}
        s    == IF hits = {} THEN 0
                ELSE IF "score" \in DOMAIN opts[Min(hits)] THEN opts[Min(hits)].score ELSE 0
    IN  IF hits # {} /\ s = 0 THEN 1 ELSE s

_get_raw_score(question, value) ==
    LET opts == OptionsOf(question)
        hits == {i \in 1..Len(opts) : opts[i].value = value}
    IN  IF hits = {} THEN 0
        ELSE IF "score" \in DOMAIN opts[Min(hits)] THEN opts[Min(hits)].score ELSE 0

_get_option_label(question, value) ==
    LET opts == OptionsOf(question)
        hits == {i \in 1..Len(opts) : opts[i].value = value}
    IN  IF hits = {} THEN value
        ELSE IF "label" \in DOMAIN opts[Min(hits)] THEN opts[Min(hits)].label ELSE value

\* the last matching rule replaces the earlier ones
_check_hard_rules_LastMatch(self, answers) ==
    LET hits == {i \in 1..Len(self.hard_rules) : RuleMatches(self.hard_rules[i], answers)}
    IN  IF hits = {} THEN NoneValue ELSE self.hard_rules[Max(hits)]

_check_hard_rules(self, answers) ==
    LET hits == {i \in 1..Len(self.hard_rules) : RuleMatches(self.hard_rules[i], answers)}
    IN  IF hits = {} THEN NoneValue ELSE self.hard_rules[Min(hits)]

\* only the first matching rule applies (a break after the first match)
RECURSIVE MultiplierLoop_FirstOnly(_, _, _, _)
MultiplierLoop_FirstOnly(rules, answers, i, total) ==
    IF i > Len(rules) THEN total
    ELSE IF RuleMatches(rules[i], answers)
    THEN FMul(total, FromDec(rules[i].multiplier, 3))
    ELSE MultiplierLoop_FirstOnly(rules, answers, i + 1, total)

\* total = 1.0; total *= rule["multiplier"] for each matching rule, in list order
RECURSIVE MultiplierLoop(_, _, _, _)
MultiplierLoop(rules, answers, i, total) ==
    IF i > Len(rules) THEN total
    ELSE IF RuleMatches(rules[i], answers)
    THEN MultiplierLoop(rules, answers, i + 1, FMul(total, FromDec(rules[i].multiplier, 3)))
    ELSE MultiplierLoop(rules, answers, i + 1, total)

\* the multiplier in thousandths
_calculate_multiplier(self, answers) ==
    RoundDec(MultiplierLoop(self.multiplier_rules, answers, 1, FromDec(1, 0)), 3)

RECURSIVE ActiveLoop(_, _, _)
ActiveLoop(rules, answers, i) ==
    IF i > Len(rules) THEN <<>>
    ELSE IF RuleMatches(rules[i], answers)
    THEN <<rules[i]>> \o ActiveLoop(rules, answers, i + 1)
    ELSE ActiveLoop(rules, answers, i + 1)

_get_active_multipliers(self, answers) == ActiveLoop(self.multiplier_rules, answers, 1)

\* t["min"] <= score <= t["max"], score in hundredths
InRange(t, score) == 100 * t.min <= score /\ score <= 100 * t.max

\* the fallback is the least severe tier
_classify_FallbackLowest(self, score) ==
    LET hits == {i \in 1..Len(self.thresholds) : InRange(self.thresholds[i], score)}
    IN  IF hits = {} THEN self.thresholds[1].key ELSE self.thresholds[Min(hits)].key

\* no fallback: a score in no range is left unclassified
_classify_NoFallback(self, score) ==
    LET hits == {i \in 1..Len(self.thresholds) : InRange(self.thresholds[i], score)}
    IN  IF hits = {} THEN "none" ELSE self.thresholds[Min(hits)].key

_classify(self, score) ==
    LET hits == {i \in 1..Len(self.thresholds) : InRange(self.thresholds[i], score)}
    IN  IF hits = {} THEN "brecha" ELSE self.thresholds[Min(hits)].key

\* list(self.thresholds.keys())
ThresholdKeys(self) == [i \in 1..Len(self.thresholds) |-> self.thresholds[i].key]

\* order.index(c) if c in order else 0      (0-based, as in the code)
IndexOrZero(order, c) ==
    LET hits == {i \in 1..Len(order) : order[i] = c}
    IN  IF hits = {} THEN 0 ELSE Min(hits) - 1

\* module_scores[mod] = contribution: the running subtotal is dropped
ModuleTotal_Dropped(module_scores, mod) == FZero

\* dict.get / dict[k] = v on module_scores, a dict kept in insertion order
ModuleTotal(module_scores, mod) ==
    LET hits == {i \in 1..Len(module_scores) : module_scores[i].module = mod}
    IN  IF hits = {} THEN FZero ELSE module_scores[Min(hits)].total

SetModuleTotal(module_scores, mod, total) ==
    IF \E i \in 1..Len(module_scores) : module_scores[i].module = mod
    THEN [i \in 1..Len(module_scores) |->
            IF module_scores[i].module = mod
            THEN [module |-> mod, total |-> total] ELSE module_scores[i]]
    ELSE Append(module_scores, [module |-> mod, total |-> total])

\* Step 1 of evaluate: the loop over answers.items()
RECURSIVE ScoreLoop(_, _, _, _)
ScoreLoop(self, answers, i, acc) ==
    IF i > Len(answers) THEN acc
    ELSE IF ~InQuestionsMap(self, answers[i].qid) THEN ScoreLoop(self, answers, i + 1, acc)
    ELSE LET q     == QuestionsMap(self, answers[i].qid)
             value == answers[i].value
             raw   == _get_raw_score(q, value)
             mod   == q.module
             mod_w == IF mod \in DOMAIN self.module_weights
                      THEN self.module_weights[mod] ELSE 1000
             q_w   == IF "weight" \in DOMAIN q THEN q.weight ELSE 1000
             contribution ==
                 RoundDec(FMul(FMul(FromDec(raw, 0), FromDec(mod_w, 3)), FromDec(q_w, 3)), 2)
         IN  IF raw = 0 THEN ScoreLoop(self, answers, i + 1, acc)
             ELSE ScoreLoop(self, answers, i + 1,
                    [module_scores |->
                        SetModuleTotal(acc.module_scores, mod,
                            FAdd(ModuleTotal(acc.module_scores, mod), FromDec(contribution, 2))),
                     answer_details |->
                        Append(acc.answer_details,
                            [question_id |-> answers[i].qid, question_text |-> q.text,
                             module |-> mod, value |-> value,
                             value_label |-> _get_option_label(q, value),
                             raw_score |-> raw, contribution |-> contribution])])

\* sum(module_scores.values())
RECURSIVE SumTotals(_, _, _)
SumTotals(module_scores, i, total) ==
    IF i > Len(module_scores) THEN total
    ELSE SumTotals(module_scores, i + 1, FAdd(total, module_scores[i].total))

\* list.sort(key=contribution, reverse=True): stable, largest first
RECURSIVE InsertDesc(_, _)
InsertDesc(sorted, d) ==
    IF sorted = <<>> THEN <<d>>
    ELSE IF Head(sorted).contribution >= d.contribution
    THEN <<Head(sorted)>> \o InsertDesc(Tail(sorted), d)
    ELSE <<d>> \o sorted

\* the sort is left out: the details stay in the order of the answers
SortDesc_Unsorted(details, i, sorted) == details

RECURSIVE SortDesc(_, _, _)
SortDesc(details, i, sorted) ==
    IF i > Len(details) THEN sorted
    ELSE SortDesc(details, i + 1, InsertDesc(sorted, details[i]))

ThresholdInfo(self, key) ==
    self.thresholds[Min({i \in 1..Len(self.thresholds) : self.thresholds[i].key = key})]

\* the hard rule is ignored
Reconcile_ScoreOnly(self, hard_rule_hit, score_classification) == score_classification

\* the hard rule replaces the score's classification
Reconcile_Override(self, hard_rule_hit, score_classification) ==
    IF hard_rule_hit # NoneValue THEN hard_rule_hit.classification ELSE score_classification

\* Step 4 of evaluate: the hard rule is a floor under the score's classification
Reconcile(self, hard_rule_hit, score_classification) ==
    IF hard_rule_hit # NoneValue
    THEN LET order  == ThresholdKeys(self)
             hr_idx == IndexOrZero(order, hard_rule_hit.classification)
             sc_idx == IndexOrZero(order, score_classification)
         IN  order[Max({hr_idx, sc_idx}) + 1]
    ELSE score_classification

evaluate(self, answers) ==
    LET acc            == ScoreLoop(self, answers, 1, [module_scores |-> <<>>, answer_details |-> <<>>])
        base_score     == RoundDec(SumTotals(acc.module_scores, 1, FZero), 2)
        hard_rule_hit  == _check_hard_rules(self, answers)
        multiplier     == _calculate_multiplier(self, answers)
        final_score    == RoundDec(FMul(FromDec(base_score, 2), FromDec(multiplier, 3)), 2)
        classification == Reconcile(self, hard_rule_hit, _classify(self, final_score))
        override_msg   == IF hard_rule_hit = NoneValue THEN NoneValue
                          ELSE IF "override_message" \in DOMAIN hard_rule_hit
                          THEN [text |-> hard_rule_hit.override_message] ELSE [text |-> ""]
    IN  IF \/ classification \notin {self.thresholds[i].key : i \in 1..Len(self.thresholds)}
           \/ classification \notin DOMAIN self.recommendations
        THEN [raised |-> "KeyError"]
        ELSE [base_score         |-> base_score,
              final_score        |-> final_score,
              multiplier         |-> multiplier,
              classification     |-> classification,
              threshold_info     |-> ThresholdInfo(self, classification),
              recommendation     |-> self.recommendations[classification],
              module_scores      |-> acc.module_scores,
              answer_details     |-> SortDesc(acc.answer_details, 1, <<>>),
              hard_rule          |-> hard_rule_hit,
              override_msg       |-> override_msg,
              active_multipliers |-> _get_active_multipliers(self, answers)]

(***************************************************************************)
(* The running process: the engine singleton and the calls made on it.     *)
(***************************************************************************)
VARIABLES
    engine_instance,   \* the shared IncidentEngine
    call,              \* the call a client makes: its name and its argument
    result,            \* what the latest call returned, NoneValue before the first
    questions_json,    \* questions.json: the list under "questions"
    config_json,       \* config_engine.json
    db,                \* the committed rows of the database
    session,           \* the rows the running handler has added, not yet committed
    loop,              \* the handler the event loop is running, "idle" when none
    admin,             \* the frame of the admin handler in progress, or NoneValue
    client,            \* the frame of the evaluate handler in progress, or NoneValue
    requests,          \* the number of admin requests accepted so far
    faults,            \* the number of persistence faults raised so far
    _buckets,          \* rate_limit._buckets: per client host, the times of its admitted calls
    now,               \* the latest reading of time.monotonic(), in seconds
    access_log         \* the server's access log: host, time and status of each POST /evaluar

server == <<questions_json, config_json, db, session, loop, admin, client, requests, faults>>

limiter == <<_buckets, now, access_log>>

vars == <<engine_instance, call, result, server, limiter>>

\* request.client.host, or "unknown" for a request without client address
ClientHosts == {"10.0.0.1", "unknown"}

\* a reading of the monotonic clock when the process starts
ClockStart == 100

\* _buckets = defaultdict(list): no host has called yet
NoCalls ==
    /\ _buckets = [h \in ClientHosts |-> <<>>]
    /\ now = ClockStart
    /\ access_log = <<>>

\* the document config_engine.json that __init__ reads the engine's fields from
ConfigOf(self) ==
    [module_weights |-> self.module_weights, thresholds |-> self.thresholds,
     multipliers |-> self.multiplier_rules, hard_rules |-> self.hard_rules,
     recommendations |-> self.recommendations]

\* no row in any table
EmptyDb == [incidents |-> <<>>, weight_history |-> <<>>, calibration_logs |-> <<>>,
            audit_log |-> <<>>]

\* the server at rest: the engine was built from the documents on disk
AtRest ==
    /\ questions_json = engine_instance.questions
    /\ config_json = ConfigOf(engine_instance)
    /\ session = <<>>
    /\ loop = "idle"
    /\ admin = NoneValue
    /\ client = NoneValue
    /\ requests = 0
    /\ faults = 0
    /\ NoCalls

Calls ==
    {[op |-> "evaluate", answers |-> a] : a \in AnswerDicts(MaxAnswers)} \cup
    {[op |-> "_classify", score |-> s] : s \in ClassifyScores}

Init ==
    /\ engine_instance \in EngineConfigs
    /\ call \in Calls
    /\ result = NoneValue
    /\ db = EmptyDb
    /\ AtRest

\* evaluate takes the matched hard rule out of the engine's list (a pop)
Evaluate_PopsHardRule ==
    /\ call.op = "evaluate"
    /\ result' = evaluate(engine_instance, call.answers)
    /\ engine_instance' =
         [engine_instance EXCEPT
            !.hard_rules = SelectSeq(@, LAMBDA r : r # _check_hard_rules(engine_instance, call.answers))]
    /\ UNCHANGED <<call, server>>
    /\ UNCHANGED limiter

\* engine_instance.evaluate(answers)
Evaluate ==
    /\ call.op = "evaluate"
    /\ result' = evaluate(engine_instance, call.answers)
    /\ UNCHANGED <<engine_instance, call, server>>
    /\ UNCHANGED limiter

\* engine_instance._classify(score)
Classify ==
    /\ call.op = "_classify"
    /\ result' = [classification |-> _classify(engine_instance, call.score)]
    /\ UNCHANGED <<engine_instance, call, server>>
    /\ UNCHANGED limiter

Next == Evaluate \/ Classify

Spec == Init /\ [][Next]_vars

\* the engines that differ only in what the scores are computed from: the
\* weights and the multiplier rules
InitScoring ==
    /\ Init
    /\ engine_instance.thresholds = ThresholdsShipped
    /\ engine_instance.hard_rules = HardRulesBreach

SpecScoring == InitScoring /\ [][Next]_vars

(***************************************************************************)
(* Properties of the engine                                                *)
(***************************************************************************)
\* evaluate has returned / has returned a result dict
Returned == call.op = "evaluate" /\ result # NoneValue
ReturnedOk == Returned /\ "raised" \notin DOMAIN result

\* position of a classification in list(thresholds.keys()), 0 when it is no key
SeverityIndex(c) ==
    LET order == ThresholdKeys(engine_instance)
        hits  == {i \in 1..Len(order) : order[i] = c}
    IN  IF hits = {} THEN 0 ELSE Min(hits)

HardRuleHit == _check_hard_rules(engine_instance, call.answers)

\* no configured range holds the score (hundredths)
InNoTier(score) ==
    \A i \in 1..Len(engine_instance.thresholds) :
        ~(100 * engine_instance.thresholds[i].min <= score
            /\ score <= 100 * engine_instance.thresholds[i].max)

\* C1: when a hard rule matches, the returned classification is at least as
\* severe as the rule's own classification, whatever the final score is.
C1_HardRuleFloor ==
    (Returned /\ HardRuleHit # NoneValue) =>
        /\ "raised" \notin DOMAIN result
        /\ SeverityIndex(HardRuleHit.classification) >= 1
        /\ SeverityIndex(result.classification) >= SeverityIndex(HardRuleHit.classification)

\* a hard rule lifted the classification above the one the score gives
C1_Witness ==
    /\ ReturnedOk
    /\ HardRuleHit # NoneValue
    /\ result.classification = HardRuleHit.classification
    /\ SeverityIndex(_classify(engine_instance, result.final_score))
          < SeverityIndex(HardRuleHit.classification)

\* C2: when a hard rule matches, the returned classification is at least as
\* severe as the one _classify gives for the final score, also when _classify
\* fell back because no range holds the score.
C2_NoDowngrade ==
    (Returned /\ HardRuleHit # NoneValue) =>
        /\ "raised" \notin DOMAIN result
        /\ SeverityIndex(_classify(engine_instance, result.final_score)) >= 1
        /\ SeverityIndex(result.classification)
              >= SeverityIndex(_classify(engine_instance, result.final_score))

\* a hard rule of a lower tier matched while _classify fell back
C2_Witness ==
    /\ ReturnedOk
    /\ HardRuleHit # NoneValue
    /\ InNoTier(result.final_score)
    /\ SeverityIndex(HardRuleHit.classification) < SeverityIndex(result.classification)

\* C3: _classify returns the first tier, in configured order, whose [min, max]
\* holds the score, and the most severe (last) tier when no tier holds it.
C3_Classifier ==
    (call.op = "_classify" /\ result # NoneValue) =>
        LET th == engine_instance.thresholds
            s  == call.score
            holds(i) == 100 * th[i].min <= s /\ s <= 100 * th[i].max
        IN  IF \E i \in 1..Len(th) : holds(i)
            THEN \E i \in 1..Len(th) :
                    /\ holds(i)
                    /\ \A j \in 1..(i - 1) : ~holds(j)
                    /\ result.classification = th[i].key
            ELSE result.classification = th[Len(th)].key

\* _classify was called with a score that no range holds
C3_Witness ==
    /\ call.op = "_classify"
    /\ result # NoneValue
    /\ InNoTier(call.score)
    /\ result.classification = "brecha"

\* C4: evaluate returns a result for every answer mapping, and the returned
\* classification is a key of the configured thresholds.
C4_NeverFails ==
    Returned =>
        /\ "raised" \notin DOMAIN result
        /\ \E i \in 1..Len(engine_instance.thresholds) :
              engine_instance.thresholds[i].key = result.classification

\* evaluate returned for a score outside every range, with no hard rule
C4_Witness ==
    /\ ReturnedOk
    /\ HardRuleHit = NoneValue
    /\ InNoTier(result.final_score)
    /\ result.classification \in {engine_instance.thresholds[i].key :
                                    i \in 1..Len(engine_instance.thresholds)}

\* an answer whose question is not in the catalog or whose value is no option
UnknownEntry(a) ==
    \/ \A i \in 1..Len(engine_instance.questions) : engine_instance.questions[i].id # a.qid
    \/ \E i \in 1..Len(engine_instance.questions) :
          /\ engine_instance.questions[i].id = a.qid
          /\ \A k \in 1..Len(engine_instance.questions[i].options) :
                engine_instance.questions[i].options[k].value # a.value

\* a hard-rule or multiplier condition names the answer
Referenced(a) ==
    \E rules \in {engine_instance.hard_rules, engine_instance.multiplier_rules} :
        \E r \in 1..Len(rules) : \E c \in 1..Len(rules[r].conditions) :
            /\ rules[r].conditions[c].question_id = a.qid
            /\ rules[r].conditions[c].value = a.value

\* C5: unknown input raises nothing, contributes to no score and has no
\* answer detail; removing the unknown answers that no rule condition names
\* leaves the whole result unchanged.
C5_UnknownTolerated ==
    Returned =>
        LET answers  == call.answers
            known    == SelectSeq(answers, LAMBDA a : ~UnknownEntry(a))
            stripped == SelectSeq(answers, LAMBDA a : ~(UnknownEntry(a) /\ ~Referenced(a)))
            onKnown  == evaluate(engine_instance, known)
        IN  /\ "raised" \notin DOMAIN result
            /\ \A i \in 1..Len(answers) : UnknownEntry(answers[i]) =>
                  \A d \in 1..Len(result.answer_details) :
                      result.answer_details[d].question_id # answers[i].qid
            /\ known # answers =>
                  /\ result.base_score = onKnown.base_score
                  /\ result.module_scores = onKnown.module_scores
                  /\ result.answer_details = onKnown.answer_details
            /\ stripped # answers =>
                  result = (IF stripped = known THEN onKnown
                            ELSE evaluate(engine_instance, stripped))

\* an unknown answer that no condition names came with one that scores
C5_Witness ==
    /\ ReturnedOk
    /\ \E i \in 1..Len(call.answers) :
          UnknownEntry(call.answers[i]) /\ ~Referenced(call.answers[i])
    /\ result.answer_details # <<>>
    /\ result.base_score # 0

\* sum of the contributions of the details whose module is in mods
RECURSIVE SumContributions(_, _)
SumContributions(details, mods) ==
    IF details = <<>> THEN 0
    ELSE (IF Head(details).module \in mods THEN Head(details).contribution ELSE 0)
            + SumContributions(Tail(details), mods)

AbsDiff(x, y) == IF x < y THEN y - x ELSE x - y

\* the stored weight of a question and of its module, in thousandths
WeightsOf(qid) ==
    LET q == engine_instance.questions[
                CHOOSE i \in 1..Len(engine_instance.questions) :
                    engine_instance.questions[i].id = qid]
    IN  [question |-> IF "weight" \in DOMAIN q THEN q.weight ELSE 1000,
         module   |-> IF q.module \in DOMAIN engine_instance.module_weights
                      THEN engine_instance.module_weights[q.module] ELSE 1000]

\* C6: each contribution is raw_score x module_weight x question_weight
\* rounded to 2 places; every module subtotal is the sum of its answers'
\* contributions; base_score is the sum of the contributions; final_score is
\* base_score x multiplier rounded to 2 places; scores 10 and 5 at weights 1.0
\* with no matching multiplier give base_score = final_score = 15.
C6_ScoreComposition ==
    ReturnedOk =>
        LET details == result.answer_details
        IN  /\ \A d \in 1..Len(details) :
                  AbsDiff(10000 * details[d].contribution,
                          details[d].raw_score * WeightsOf(details[d].question_id).module
                             * WeightsOf(details[d].question_id).question) <= 5000
            /\ \A k \in 1..Len(result.module_scores) :
                  RoundDec(result.module_scores[k].total, 2) =
                      SumContributions(details, {result.module_scores[k].module})
            /\ \A d \in 1..Len(details) :
                  \E k \in 1..Len(result.module_scores) :
                      result.module_scores[k].module = details[d].module
            /\ result.base_score = SumContributions(details, {details[d].module : d \in 1..Len(details)})
            /\ AbsDiff(1000 * result.final_score, result.base_score * result.multiplier) <= 500
            /\ ( /\ Len(details) = 2
                 /\ {details[1].raw_score, details[2].raw_score} = {10, 5}
                 /\ \A d \in 1..2 : WeightsOf(details[d].question_id) =
                                       [question |-> 1000, module |-> 1000]
                 /\ result.active_multipliers = <<>> )
               => (result.base_score = 1500 /\ result.final_score = 1500)

\* two answers of one module scored 10 and 5 at weights 1.0, no multiplier
C6_Witness ==
    /\ ReturnedOk
    /\ Len(result.answer_details) = 2
    /\ {result.answer_details[1].raw_score, result.answer_details[2].raw_score} = {10, 5}
    /\ result.answer_details[1].module = result.answer_details[2].module
    /\ result.active_multipliers = <<>>
    /\ result.base_score = 1500
    /\ result.final_score = 1500

MatchingRules == {i \in 1..Len(engine_instance.multiplier_rules) :
                    RuleMatches(engine_instance.multiplier_rules[i], call.answers)}

\* the exact product of the factors (thousandths each) of the rules in S
RECURSIVE ExactProduct(_)
ExactProduct(S) ==
    IF S = {} THEN 1
    ELSE LET i == Min(S)
         IN  engine_instance.multiplier_rules[i].multiplier * ExactProduct(S \ {i})

\* C7: the multiplier is the product of the factors of all the matching
\* multiplier rules, rounded to 3 places, and 1 when none matches;
\* active_multipliers lists exactly the matching rules.
C7_MultiplierComposition ==
    ReturnedOk =>
        LET n == Cardinality(MatchingRules)
            unit == 1000 ^ (IF n = 0 THEN 0 ELSE n - 1)
        IN  /\ n = 0 => result.multiplier = 1000
            /\ n > 0 => 2 * AbsDiff(result.multiplier * unit, ExactProduct(MatchingRules)) <= unit
            /\ Len(result.active_multipliers) = n
            /\ \A j \in 1..Len(result.active_multipliers) :
                  \E i \in MatchingRules :
                      /\ Cardinality({k \in MatchingRules : k <= i}) = j
                      /\ result.active_multipliers[j] = engine_instance.multiplier_rules[i]

\* two rules matched, the second one's factor entered the product too
C7_Witness ==
    /\ ReturnedOk
    /\ Cardinality(MatchingRules) = 2
    /\ Len(result.active_multipliers) = 2
    /\ result.multiplier = 3000

\* the multiplier rules in the order p (a permutation of their indices)
Reordered(p) ==
    [engine_instance EXCEPT
        !.multiplier_rules = [i \in 1..Len(@) |-> @[p[i]]]]

\* C8: the composed multiplier is the same for every order of the
\* multiplier-rule list.
C8_MultiplierCommutes ==
    ReturnedOk =>
        \A p \in Permutations(1..Len(engine_instance.multiplier_rules)) :
            _calculate_multiplier(Reordered(p), call.answers) = result.multiplier

\* C9: the hard rule returned is the earliest rule of the list whose
\* conditions all match, none when no rule matches; a later matching rule
\* never replaces it.
C9_FirstMatchWins ==
    ReturnedOk =>
        LET rules == engine_instance.hard_rules
            hits  == {i \in 1..Len(rules) : RuleMatches(rules[i], call.answers)}
        IN  IF hits = {} THEN result.hard_rule = NoneValue
            ELSE \E i \in hits :
                    /\ \A j \in hits : i <= j
                    /\ result.hard_rule = rules[i]

\* two rules matched and the earlier, less severe one was returned
C9_Witness ==
    /\ ReturnedOk
    /\ result.hard_rule # NoneValue
    /\ \E i, j \in 1..Len(engine_instance.hard_rules) :
          /\ i < j
          /\ result.hard_rule = engine_instance.hard_rules[i]
          /\ RuleMatches(engine_instance.hard_rules[j], call.answers)
          /\ SeverityIndex(engine_instance.hard_rules[j].classification)
                > SeverityIndex(result.hard_rule.classification)

WithScore(self, qi, oi, s) ==
    [self EXCEPT !.questions[qi].options[oi] = [value |-> @.value, score |-> s]]

\* the scores an option's raw score is raised to
RaisedScores == {-3, -1, 0, 1, 4, 6, 12}

\* C11: raising the raw score of one option, everything else fixed, never
\* lowers base_score and never lowers final_score, also across zero.
C11_Monotone ==
    ReturnedOk =>
        \A qi \in 1..Len(engine_instance.questions) :
            \A oi \in 1..Len(engine_instance.questions[qi].options) :
                LET q   == engine_instance.questions[qi]
                    old == IF "score" \in DOMAIN q.options[oi] THEN q.options[oi].score ELSE 0
                IN  AnswerIs(call.answers, q.id, q.options[oi].value) =>
                        \A s \in {x \in RaisedScores : x > old} :
                            LET raised == evaluate(WithScore(engine_instance, qi, oi, s), call.answers)
                            IN  /\ "raised" \notin DOMAIN raised
                                /\ raised.base_score >= result.base_score
                                /\ raised.final_score >= result.final_score

\* a negative score was selected, with a multiplier at work: raising it to
\* zero, and from zero to a positive score, strictly raises both scores
C11_Witness ==
    /\ ReturnedOk
    /\ result.active_multipliers # <<>>
    /\ \E qi \in 1..Len(engine_instance.questions) :
          LET atZero == evaluate(WithScore(engine_instance, qi, 1, 0), call.answers)
              atOne  == evaluate(WithScore(engine_instance, qi, 1, 1), call.answers)
          IN  /\ AnswerIs(call.answers, engine_instance.questions[qi].id, "yes")
              /\ engine_instance.questions[qi].options[1].score < 0
              /\ atZero.base_score > result.base_score
              /\ atZero.final_score > result.final_score
              /\ atOne.base_score > atZero.base_score
              /\ atOne.final_score > atZero.final_score

\* C20: answer_details is sorted by contribution, largest first: each entry's
\* contribution is at least the next entry's.
C20_DetailsSorted ==
    ReturnedOk =>
        \A d \in 1..(Len(result.answer_details) - 1) :
            result.answer_details[d].contribution >= result.answer_details[d + 1].contribution

\* the answer given first contributed less and is listed last
C20_Witness ==
    /\ ReturnedOk
    /\ Len(result.answer_details) = 2
    /\ result.answer_details[2].question_id = call.answers[1].qid
    /\ result.answer_details[1].contribution > result.answer_details[2].contribution

(***************************************************************************)
(* The web application around the engine: the admin handlers, the          *)
(* calibration run and the documents and tables they write.  Handlers are  *)
(* coroutines of one event loop; the steps below are the statements        *)
(* between which a handler could be observed.                               *)
(***************************************************************************)
MIN_SAMPLES == 5
LEARNING_RATE == FromDec(8, 2)

MaxRequests == 2
MaxFaults == 1

\* rows of incidents with their incident_answers; contribution in hundredths
Answered(qids) == [i \in 1..Len(qids) |-> [question_id |-> qids[i], contribution |-> 250]]
Incident(resolution, qids) == [resolution |-> resolution, answers |-> Answered(qids)]

\* four incidents with a terminal resolution, two without
LedgerFew ==
    << Incident("tp_resolved", <<"q_001">>), Incident("tp_escalated", <<"q_001">>),
       Incident("open", <<"q_001">>), Incident("fp", <<"q_001">>),
       Incident("none", <<"q_001">>), Incident("tp_resolved", <<"q_001">>) >>

\* five true positives: q_001 and q_900 (in no catalog) answered in all, q_002 in four
LedgerTruePositives ==
    << Incident("tp_resolved", <<"q_900", "q_001", "q_002">>),
       Incident("tp_escalated", <<"q_900", "q_001", "q_002">>),
       Incident("tp_resolved", <<"q_900", "q_001", "q_002">>),
       Incident("tp_resolved", <<"q_900", "q_001", "q_002">>),
       Incident("tp_escalated", <<"q_900", "q_001">>) >>

\* two true and four false positives: q_003 and q_001 in all six, q_002 in five
LedgerMixed ==
    << Incident("fp", <<"q_003", "q_001", "q_002">>),
       Incident("tp_resolved", <<"q_003", "q_001", "q_002">>),
       Incident("fp", <<"q_003", "q_001", "q_002">>),
       Incident("fp", <<"q_003", "q_001">>),
       Incident("tp_escalated", <<"q_003", "q_001", "q_002">>),
       Incident("fp", <<"q_003", "q_001", "q_002">>) >>

\* three true and three false positives on q_001: its error rate is zero
LedgerBalanced ==
    << Incident("fp", <<"q_001">>), Incident("tp_resolved", <<"q_001">>),
       Incident("fp", <<"q_001">>), Incident("tp_resolved", <<"q_001">>),
       Incident("fp", <<"q_001">>), Incident("tp_escalated", <<"q_001">>) >>

Ledgers == {LedgerFew, LedgerTruePositives, LedgerMixed, LedgerBalanced}

\* the engine the server starts with: __init__ on the documents as shipped
ServerConfig ==
    [module_weights |-> ModuleWeightsUnit, thresholds |-> ThresholdsShipped,
     multiplier_rules |-> MultipliersTwo, hard_rules |-> HardRulesBreach,
     recommendations |-> Recommendations, questions |-> QuestionsUnit]

\* a form field: the text of a decimal number n / 10^k, "nan", or no number
Dec(n, k) == [kind |-> "dec", n |-> n, k |-> k]
NaN == [kind |-> "nan"]
Junk == [kind |-> "junk"]

\* the requests to update_question_weight: the question_id of the path and
\* the form.  "q_900" is in no catalog; the empty form has no "weight".
QuestionWeightRequests ==
    { [question_id |-> "q_001", form |-> [weight |-> Dec(7, 0)]],
      [question_id |-> "q_001", form |-> [weight |-> Dec(504, 4)]],
      [question_id |-> "q_003", form |-> [weight |-> NaN]],
      [question_id |-> "q_001", form |-> [weight |-> Junk]],
      [question_id |-> "q_900", form |-> [weight |-> Dec(25004, 4)]],
      [question_id |-> "q_001", form |-> <<>>] }

\* the weight_<module> fields of update_module_weights
ModuleWeightForms ==
    { [red |-> Dec(4321, 3), zona |-> Dec(2, 0)],
      [red |-> Dec(15011, 4), identidad |-> Dec(-3, 0)],
      [red |-> Junk, identidad |-> NaN] }

\* the thresh_<key>_min / thresh_<key>_max fields of update_thresholds
Range(lo, hi) == [min |-> lo, max |-> hi]
ThresholdForms ==
    { [informativo |-> Range(Dec(0, 0), Dec(15, 0)), sospechoso |-> Range(Dec(10, 0), Dec(25, 0)),
       incidente |-> Range(Dec(20, 0), Dec(35, 0)), critico |-> Range(Dec(30, 0), Dec(45, 0)),
       brecha |-> Range(Dec(40, 0), Dec(60, 0))],
      [sospechoso |-> Range(Dec(16, 0), Dec(20, 0))],
      [incidente |-> Range(Dec(25, 0), Junk), critico |-> Range(Junk, Dec(50, 0))] }

\* the key order of the "module_weights" object
ModuleOrder == <<"red", "identidad">>

\* the answers a client submits to /evaluar
ClientAnswers ==
    { << [qid |-> "q_001", value |-> "yes"] >>,
      << [qid |-> "q_002", value |-> "no"], [qid |-> "q_003", value |-> "yes"] >> }

\* the clamp is left out: round(float(text), 3) is stored as it is
RoundClamp_Unclamped(text, hi) ==
    IF text.kind = "nan" THEN hi ELSE RoundDec(FromDec(text.n, text.k), 3)

\* round(float(text), 3) clamped by max(0.1, min(hi, .)), in thousandths.
\* round(nan, 3) is nan, and min(hi, nan) is hi.
RoundClamp(text, hi) ==
    IF text.kind = "nan" THEN hi
    ELSE Max({100, Min({hi, RoundDec(FromDec(text.n, text.k), 3)})})

\* abs(new - old) > eps, for weights in thousandths and eps in thousandths
MovedBy(new, old, eps) ==
    FLess(FromDec(eps, 3), FAbs(FSub(FromDec(new, 3), FromDec(old, 3))))

\* q.get("weight", 1.0) and q["weight"] = w
WeightOf(q) == IF "weight" \in DOMAIN q THEN q.weight ELSE 1000
WithWeight(q, w) ==
    [f \in DOMAIN q \cup {"weight"} |-> IF f = "weight" THEN w ELSE q[f]]

\* reason="Edición manual vía panel admin"
ManualEdit == [text |-> "manual"]

\* old_value is read after the weight was assigned
WeightHistory_OldAfterWrite(question_id, module, change_type, old, new, reason) ==
    [table |-> "weight_history", question_id |-> question_id, module |-> module,
     change_type |-> change_type, old_value |-> new, new_value |-> new, reason |-> reason]

WeightHistory(question_id, module, change_type, old, new, reason) ==
    [table |-> "weight_history", question_id |-> question_id, module |-> module,
     change_type |-> change_type, old_value |-> old, new_value |-> new, reason |-> reason]

AuditLog(action) == [table |-> "audit_log", action |-> action]

\* db.commit(): the session's rows join their tables
Rows(rows, table) == SelectSeq(rows, LAMBDA r : r.table = table)
Commit(rows) ==
    [incidents        |-> db.incidents,
     weight_history   |-> db.weight_history \o Rows(rows, "weight_history"),
     calibration_logs |-> db.calibration_logs \o Rows(rows, "calibration_logs"),
     audit_log        |-> db.audit_log \o Rows(rows, "audit_log")]

\* the thread is allowed to run a statement of handler h: the handlers are
\* "async def" with no await between their first and last statement on the
\* engine, so the event loop runs one of them at a time
CanRun_Threaded(h) == TRUE

CanRun(h) == loop \in {"idle", h}

\* a request reaches an admin handler, past "await request.form()"; cap
\* bounds the number of requests
AcceptedUnder(cap) ==
    /\ CanRun("admin")
    /\ admin = NoneValue
    /\ requests < cap
    /\ requests' = requests + 1
    /\ loop' = "admin"
    /\ UNCHANGED limiter

Accepted == AcceptedUnder(MaxRequests)

Frame(op, pc, path, data, cal) ==
    [op |-> op, pc |-> pc, path |-> path, data |-> data, cal |-> cal,
     before |-> NoneValue, loaded |-> NoneValue, field |-> 0]

\* POST /admin/question-weight/{question_id}, up to the save
update_question_weight(question_id, form) ==
    /\ Accepted
    /\ LET hits == {i \in 1..Len(questions_json) : questions_json[i].id = question_id}
           ok   == hits # {} /\ "weight" \in DOMAIN form /\ form.weight.kind # "junk"
       IN  IF ok
           THEN LET i   == Min(hits)
                    q   == questions_json[i]
                    new == RoundClamp(form.weight, 5000)
                IN  /\ admin' = Frame("update_question_weight", "save", "questions.json",
                                      [questions_json EXCEPT ![i] = WithWeight(q, new)],
                                      NoneValue)
                    /\ session' = << WeightHistory(question_id, q.module, "question_weight",
                                                   WeightOf(q), new, ManualEdit) >>
           ELSE /\ admin' = Frame("update_question_weight", "save", "questions.json",
                                  questions_json, NoneValue)
                /\ session' = <<>>
    /\ UNCHANGED <<engine_instance, call, result, questions_json, config_json, db, client, faults>>
    /\ UNCHANGED limiter

\* the loop of update_module_weights over the modules of the document
RECURSIVE ModuleWeightsLoop(_, _, _)
ModuleWeightsLoop(form, i, acc) ==
    IF i > Len(ModuleOrder) THEN acc
    ELSE LET mod == ModuleOrder[i]
         IN  IF mod \notin DOMAIN acc.weights \/ mod \notin DOMAIN form
                \/ form[mod].kind = "junk"
             THEN ModuleWeightsLoop(form, i + 1, acc)
             ELSE LET old == acc.weights[mod]
                      new == RoundClamp(form[mod], 5000)
                  IN  IF MovedBy(new, old, 1)
                      THEN ModuleWeightsLoop(form, i + 1,
                              [weights |-> [acc.weights EXCEPT ![mod] = new],
                               added   |-> Append(acc.added,
                                               WeightHistory(NoneValue, mod, "module_weight",
                                                             old, new, ManualEdit))])
                      ELSE ModuleWeightsLoop(form, i + 1, acc)

\* POST /admin/module-weights, up to the save
update_module_weights(form) ==
    /\ Accepted
    /\ LET done == ModuleWeightsLoop(form, 1,
                       [weights |-> config_json.module_weights, added |-> <<>>])
       IN  /\ admin' = Frame("update_module_weights", "save", "config_engine.json",
                             [config_json EXCEPT !.module_weights = done.weights], NoneValue)
           /\ session' = done.added
    /\ UNCHANGED <<engine_instance, call, result, questions_json, config_json, db, client, faults>>
    /\ UNCHANGED limiter

\* one tier of update_thresholds: int() of the min is stored before int() of
\* the max is tried
EditedTier(t, form) ==
    IF t.key \notin DOMAIN form \/ form[t.key].min.kind # "dec" THEN t
    ELSE IF form[t.key].max.kind # "dec" THEN [t EXCEPT !.min = form[t.key].min.n]
    ELSE [t EXCEPT !.min = form[t.key].min.n, !.max = form[t.key].max.n]

\* POST /admin/thresholds, up to the save
update_thresholds(form) ==
    /\ Accepted
    /\ admin' = Frame("update_thresholds", "save", "config_engine.json",
                      [config_json EXCEPT
                          !.thresholds = [i \in 1..Len(@) |-> EditedTier(@[i], form)]],
                      NoneValue)
    /\ session' = <<>>
    /\ UNCHANGED <<engine_instance, call, result, questions_json, config_json, db, client, faults>>
    /\ UNCHANGED limiter

\* POST /admin/calibrate, up to the call of run_calibration
ManualCalibration(cap) ==
    /\ AcceptedUnder(cap)
    /\ admin' = Frame("manual_calibration", "run_calibration", "questions.json",
                      NoneValue, NoneValue)
    /\ session' = <<>>
    /\ UNCHANGED <<engine_instance, call, result, questions_json, config_json, db, client, faults>>
    /\ UNCHANGED limiter

manual_calibration == ManualCalibration(MaxRequests)

TerminalResolutions == {"fp", "tp_resolved", "tp_escalated"}

\* db.query(Incident).filter(Incident.resolution.in_([...])).all()
Resolved == SelectSeq(db.incidents, LAMBDA i : i.resolution \in TerminalResolutions)

\* the answers of the resolved incidents, each with its incident's is_tp
RECURSIVE ResolvedAnswers(_, _)
ResolvedAnswers(resolved, i) ==
    IF i > Len(resolved) THEN <<>>
    ELSE [k \in 1..Len(resolved[i].answers) |->
            [question_id |-> resolved[i].answers[k].question_id,
             is_tp |-> resolved[i].resolution \in {"tp_resolved", "tp_escalated"}]]
         \o ResolvedAnswers(resolved, i + 1)

\* the keys of question_stats, in the order they were inserted
RECURSIVE StatKeys(_, _, _)
StatKeys(entries, i, keys) ==
    IF i > Len(entries) THEN keys
    ELSE StatKeys(entries, i + 1,
            IF \E k \in 1..Len(keys) : keys[k] = entries[i].question_id
            THEN keys ELSE Append(keys, entries[i].question_id))

\* question_stats[qid]
QuestionStats(entries, qid) ==
    [count    |-> Cardinality({i \in 1..Len(entries) : entries[i].question_id = qid}),
     tp_total |-> Cardinality({i \in 1..Len(entries) :
                                 entries[i].question_id = qid /\ entries[i].is_tp}),
     fp_total |-> Cardinality({i \in 1..Len(entries) :
                                 entries[i].question_id = qid /\ ~entries[i].is_tp})]

\* Python's min(a, b) and max(a, b) on floats: a unless b is beyond it
PyMin(a, b) == IF FLess(b, a) THEN b ELSE a
PyMax(a, b) == IF FLess(a, b) THEN b ELSE a

\* the false-positive rate is left out: error_rate = tp_rate
ErrorRate_TpRate(stats) == FDivInt(stats.tp_total, stats.count)

\* error_rate = tp_rate - fp_q_rate
ErrorRate(stats) ==
    FSub(FDivInt(stats.tp_total, stats.count), FDivInt(stats.fp_total, stats.count))

\* round(max(0.1, min(3.0, old_weight + LEARNING_RATE * error_rate)), 3),
\* in thousandths
NewWeight(old, stats) ==
    RoundDec(PyMax(FromDec(1, 1),
                   PyMin(FromDec(30, 1),
                         FAdd(FromDec(old, 3), FMul(LEARNING_RATE, ErrorRate(stats))))), 3)

\* the deadband is ignored: any difference is written
MovedBeyondDeadband_Any(new, old) == new # old

\* abs(new_weight - old_weight) > 0.005
MovedBeyondDeadband(new, old) == MovedBy(new, old, 5)

\* the rates as the reason text prints them, with two decimals
Rates(stats) ==
    [text |-> "auto-calibration",
     tp_rate |-> RoundDec(FDivInt(stats.tp_total, stats.count), 2),
     fp_rate |-> RoundDec(FDivInt(stats.fp_total, stats.count), 2)]

\* the weight is written and counted, but no WeightHistory row is added
Adjusted_Unlogged(acc, k, stats, new) ==
    IF MovedBy(new, WeightOf(acc.questions[k]), 5)
    THEN [questions   |-> [acc.questions EXCEPT ![k] = WithWeight(@, new)],
          added       |-> acc.added,
          adjustments |-> acc.adjustments + 1]
    ELSE acc

\* the body of the adjustment loop for question k of the catalog
Adjusted(acc, k, stats, new) ==
    IF MovedBeyondDeadband(new, WeightOf(acc.questions[k]))
    THEN [questions   |-> [acc.questions EXCEPT ![k] = WithWeight(@, new)],
          added       |-> Append(acc.added,
                              WeightHistory(acc.questions[k].id, acc.questions[k].module,
                                            "question_weight", WeightOf(acc.questions[k]),
                                            new, Rates(stats))),
          adjustments |-> acc.adjustments + 1]
    ELSE acc

\* only a question missing from the catalog is passed over
Skips_AbsentOnly(stats, hits) == hits = {}

\* the two "continue" of the loop: too few answers, or not in questions_map
Skips(stats, hits) == stats.count < MIN_SAMPLES \/ hits = {}

\* the loop of run_calibration over question_stats.items()
RECURSIVE AdjustLoop(_, _, _, _)
AdjustLoop(entries, keys, i, acc) ==
    IF i > Len(keys) THEN acc
    ELSE LET stats == QuestionStats(entries, keys[i])
             hits  == {k \in 1..Len(acc.questions) : acc.questions[k].id = keys[i]}
         IN  IF Skips(stats, hits)
             THEN AdjustLoop(entries, keys, i + 1, acc)
             ELSE AdjustLoop(entries, keys, i + 1,
                     Adjusted(acc, Max(hits), stats,
                              NewWeight(WeightOf(acc.questions[Max(hits)]), stats)))

\* the gate lets a run with too few resolved incidents through
TooFew_Never(resolved) == FALSE

\* len(resolved) < MIN_SAMPLES
TooFew(resolved) == Len(resolved) < MIN_SAMPLES

\* every WeightHistory row is committed as soon as the pass adds it
run_calibration_CommitsEachRow ==
    /\ CanRun("admin")
    /\ admin # NoneValue
    /\ admin.pc = "run_calibration"
    /\ LET resolved == Resolved
           entries  == ResolvedAnswers(resolved, 1)
           fp_count == Cardinality({i \in 1..Len(resolved) : resolved[i].resolution = "fp"})
           done     == AdjustLoop(entries, StatKeys(entries, 1, <<>>), 1,
                           [questions |-> questions_json, added |-> <<>>, adjustments |-> 0])
       IN  IF TooFew(resolved)
           THEN /\ admin' = [admin EXCEPT !.pc = "reload",
                                          !.cal = [status |-> "skipped", adjustments |-> 0]]
                /\ session' = session
                /\ db' = db
           ELSE /\ admin' = [admin EXCEPT
                               !.pc = "save", !.data = done.questions,
                               !.before = questions_json,
                               !.cal = [status |-> "running",
                                        total_resolved |-> Len(resolved),
                                        true_positives |-> Len(resolved) - fp_count,
                                        false_positives |-> fp_count,
                                        adjustments |-> done.adjustments]]
                /\ session' = session
                /\ db' = Commit(done.added)
    /\ UNCHANGED <<engine_instance, call, result, questions_json, config_json, loop,
                   client, requests, faults>>
    /\ UNCHANGED limiter

\* run_calibration from its query to the end of the adjustment loop
run_calibration ==
    /\ CanRun("admin")
    /\ admin # NoneValue
    /\ admin.pc = "run_calibration"
    /\ LET resolved == Resolved
           entries  == ResolvedAnswers(resolved, 1)
           fp_count == Cardinality({i \in 1..Len(resolved) : resolved[i].resolution = "fp"})
           done     == AdjustLoop(entries, StatKeys(entries, 1, <<>>), 1,
                           [questions |-> questions_json, added |-> <<>>, adjustments |-> 0])
       IN  IF TooFew(resolved)
           THEN /\ admin' = [admin EXCEPT !.pc = "reload",
                                          !.cal = [status |-> "skipped", adjustments |-> 0]]
                /\ session' = session
           ELSE /\ admin' = [admin EXCEPT
                               !.pc = "save", !.data = done.questions,
                               !.before = questions_json,
                               !.cal = [status |-> "running",
                                        total_resolved |-> Len(resolved),
                                        true_positives |-> Len(resolved) - fp_count,
                                        false_positives |-> fp_count,
                                        adjustments |-> done.adjustments]]
                /\ session' = session \o done.added
    /\ UNCHANGED <<engine_instance, call, result, questions_json, config_json, db, loop,
                   client, requests, faults>>
    /\ UNCHANGED limiter

\* _save_json(path, data)
_save_json ==
    /\ CanRun("admin")
    /\ admin # NoneValue
    /\ admin.pc = "save"
    /\ IF admin.path = "questions.json"
       THEN questions_json' = admin.data /\ config_json' = config_json
       ELSE config_json' = admin.data /\ questions_json' = questions_json
    /\ admin' = [admin EXCEPT
                   !.pc = IF admin.op = "manual_calibration" THEN "log" ELSE "reload"]
    /\ UNCHANGED <<engine_instance, call, result, db, session, loop, client, requests, faults>>
    /\ UNCHANGED limiter

CalibrationLog(cal) ==
    [table |-> "calibration_logs", total_incidents |-> cal.total_resolved,
     true_positives |-> cal.true_positives, false_positives |-> cal.false_positives,
     false_negatives |-> 0, adjustments_made |-> cal.adjustments]

\* the log is added only by a run that adjusted a weight
Logged_OnlyWhenAdjusted(rows, cal) ==
    IF cal.adjustments = 0 THEN rows ELSE Append(rows, CalibrationLog(cal))

\* db.add(log): the rows of the session at the commit of run_calibration
Logged(rows, cal) == Append(rows, CalibrationLog(cal))

\* the end of run_calibration: db.add(log), db.commit(), return
log_and_commit ==
    /\ CanRun("admin")
    /\ admin # NoneValue
    /\ admin.pc = "log"
    /\ db' = Commit(Logged(session, admin.cal))
    /\ session' = <<>>
    /\ admin' = [admin EXCEPT !.pc = "reload", !.cal.status = "completed"]
    /\ UNCHANGED <<engine_instance, call, result, questions_json, config_json, loop,
                   client, requests, faults>>
    /\ UNCHANGED limiter

\* the engine fields in the order __init__ assigns them
RELOAD_ORDER ==
    <<"module_weights", "thresholds", "multiplier_rules", "hard_rules", "recommendations",
      "questions">>

\* the reads evaluate makes of the engine's fields, in the order of the code:
\* the loop over the answers, _check_hard_rules, _calculate_multiplier,
\* _classify, threshold_info, recommendation, _get_active_multipliers
EVALUATE_READS ==
    <<"questions", "module_weights", "hard_rules", "multiplier_rules", "thresholds",
      "thresholds", "recommendations", "multiplier_rules">>

\* what __init__ makes of the two documents on disk
DiskConfig ==
    [module_weights |-> config_json.module_weights, thresholds |-> config_json.thresholds,
     multiplier_rules |-> config_json.multipliers, hard_rules |-> config_json.hard_rules,
     recommendations |-> config_json.recommendations, questions |-> questions_json]

\* reload keeps the configuration the engine already has
reload_KeepsSnapshot ==
    /\ CanRun("admin")
    /\ admin # NoneValue
    /\ admin.pc = "reload"
    /\ admin' = [admin EXCEPT !.pc = "assign", !.field = 1,
                              !.before = engine_instance, !.loaded = engine_instance]
    /\ client' = client
    /\ UNCHANGED <<engine_instance, call, result, questions_json, config_json, db, session,
                   loop, requests, faults>>
    /\ UNCHANGED limiter

\* engine_instance.reload(): __init__ reads both documents
reload ==
    /\ CanRun("admin")
    /\ admin # NoneValue
    /\ admin.pc = "reload"
    /\ admin' = [admin EXCEPT !.pc = "assign", !.field = 1,
                              !.before = engine_instance, !.loaded = DiskConfig]
    /\ client' = IF client = NoneValue THEN client
                 ELSE [client EXCEPT !.during = @ \cup {DiskConfig}]
    /\ UNCHANGED <<engine_instance, call, result, questions_json, config_json, db, session,
                   loop, requests, faults>>
    /\ UNCHANGED limiter

\* one assignment of __init__ to a field of the engine
assign_field ==
    /\ CanRun("admin")
    /\ admin # NoneValue
    /\ admin.pc = "assign"
    /\ engine_instance' =
         [engine_instance EXCEPT ![RELOAD_ORDER[admin.field]] = admin.loaded[RELOAD_ORDER[admin.field]]]
    /\ admin' = IF admin.field = Len(RELOAD_ORDER)
                THEN [admin EXCEPT !.pc = "audit"]
                ELSE [admin EXCEPT !.field = @ + 1]
    /\ UNCHANGED <<call, result, questions_json, config_json, db, session, loop, client,
                   requests, faults>>
    /\ UNCHANGED limiter

\* the end of an admin handler: audit(...), db.commit(), the redirect
audit_and_commit ==
    /\ CanRun("admin")
    /\ admin # NoneValue
    /\ admin.pc = "audit"
    /\ db' = Commit(Append(session, AuditLog(admin.op)))
    /\ session' = <<>>
    /\ result' = [response |-> admin.op, cal |-> admin.cal]
    /\ admin' = NoneValue
    /\ loop' = "idle"
    /\ UNCHANGED <<engine_instance, call, questions_json, config_json, client, requests, faults>>
    /\ UNCHANGED limiter

\* _save_json or db.commit() raises: the exception leaves the handler, and
\* get_db closes the session with its uncommitted rows
raise_fault ==
    /\ CanRun("admin")
    /\ admin # NoneValue
    /\ admin.pc \in {"save", "log", "audit"}
    /\ faults < MaxFaults
    /\ faults' = faults + 1
    /\ session' = <<>>
    /\ result' = [raised |-> IF admin.pc = "save" THEN "OSError" ELSE "SQLAlchemyError",
                  response |-> admin.op]
    /\ admin' = NoneValue
    /\ loop' = "idle"
    /\ UNCHANGED <<engine_instance, call, questions_json, config_json, db, client, requests>>
    /\ UNCHANGED limiter

\* POST /evaluar or /api/score-preview is accepted: the handler waits for
\* the body of the request, and the event loop is free meanwhile
evaluar_submit(answers) ==
    /\ CanRun("client")
    /\ client = NoneValue
    /\ client' = [answers |-> answers, pc |-> 0, seen |-> <<>>,
                  during |-> IF admin # NoneValue /\ admin.pc = "assign"
                             THEN {admin.before, admin.loaded} ELSE {engine_instance}]
    /\ call' = [op |-> "evaluate", answers |-> answers]
    /\ UNCHANGED <<engine_instance, result, questions_json, config_json, db, session, loop,
                   admin, requests, faults>>
    /\ UNCHANGED limiter

\* the handler resumes and calls engine_instance.evaluate(answers)
evaluate_called ==
    /\ CanRun("client")
    /\ client # NoneValue
    /\ client.pc = 0
    /\ client' = [client EXCEPT !.pc = 1]
    /\ loop' = "client"
    /\ UNCHANGED <<engine_instance, call, result, questions_json, config_json, db, session,
                   admin, requests, faults>>
    /\ UNCHANGED limiter

\* evaluate makes its next read of a field of self
evaluate_reads ==
    /\ CanRun("client")
    /\ client # NoneValue
    /\ client.pc \in 1..Len(EVALUATE_READS)
    /\ client' = [client EXCEPT
                    !.pc = @ + 1,
                    !.seen = Append(@, engine_instance[EVALUATE_READS[client.pc]])]
    /\ UNCHANGED <<engine_instance, call, result, questions_json, config_json, db, session,
                   loop, admin, requests, faults>>
    /\ UNCHANGED limiter

\* the value evaluate read for a field, at its first read of it
Seen(frame, field) ==
    frame.seen[Min({k \in 1..Len(EVALUATE_READS) : EVALUATE_READS[k] = field})]

\* the configuration an evaluate call has worked with
SeenConfig(frame) ==
    [module_weights |-> Seen(frame, "module_weights"), thresholds |-> Seen(frame, "thresholds"),
     multiplier_rules |-> Seen(frame, "multiplier_rules"), hard_rules |-> Seen(frame, "hard_rules"),
     recommendations |-> Seen(frame, "recommendations"), questions |-> Seen(frame, "questions")]

\* evaluate returns
evaluate_returns ==
    /\ CanRun("client")
    /\ client # NoneValue
    /\ client.pc > Len(EVALUATE_READS)
    /\ result' = evaluate(SeenConfig(client), client.answers)
    /\ client' = NoneValue
    /\ loop' = "idle"
    /\ UNCHANGED <<engine_instance, call, questions_json, config_json, db, session, admin,
                   requests, faults>>
    /\ UNCHANGED limiter

\* the server with the ledger of resolved incidents it has collected
InitServer ==
    /\ engine_instance = ServerConfig
    /\ call = [op |-> "none"]
    /\ result = NoneValue
    /\ \E ledger \in Ledgers : db = [EmptyDb EXCEPT !.incidents = ledger]
    /\ AtRest

\* the admin handlers, with the persistence faults they can meet
NextServer ==
    \/ \E r \in QuestionWeightRequests : update_question_weight(r.question_id, r.form)
    \/ \E form \in ModuleWeightForms : update_module_weights(form)
    \/ \E form \in ThresholdForms : update_thresholds(form)
    \/ manual_calibration
    \/ run_calibration
    \/ _save_json
    \/ log_and_commit
    \/ reload
    \/ assign_field
    \/ audit_and_commit
    \/ raise_fault

SpecServer == InitServer /\ [][NextServer]_vars

InitReload ==
    /\ InitServer
    /\ db.incidents = LedgerFew

\* the handlers that reload the engine and the handlers that evaluate on it
NextReload ==
    \/ \E form \in ModuleWeightForms : update_module_weights(form)
    \/ \E form \in ThresholdForms : update_thresholds(form)
    \/ _save_json
    \/ reload
    \/ assign_field
    \/ audit_and_commit
    \/ \E answers \in ClientAnswers : evaluar_submit(answers)
    \/ evaluate_called
    \/ evaluate_reads
    \/ evaluate_returns

SpecReload == InitReload /\ [][NextReload]_vars

(***************************************************************************)
(* Properties of the admin handlers and of the calibration run.            *)
(***************************************************************************)
\* 0.1 <= w <= hi, for w and hi in thousandths
InBounds(w, hi) == 100 <= w /\ w <= hi

\* the WeightHistory rows, committed or in the session of the running handler
HistoryRows == db.weight_history \o Rows(session, "weight_history")

\* the weights a handler is about to save
PendingInBounds ==
    admin # NoneValue /\ admin.data # NoneValue =>
        IF admin.path = "questions.json"
        THEN \A i \in 1..Len(admin.data) : InBounds(WeightOf(admin.data[i]), 5000)
        ELSE \A m \in DOMAIN admin.data.module_weights :
                InBounds(admin.data.module_weights[m], 5000)

\* C12: a weight written by a calibration run lies in [0.1, 3.0], a weight
\* written by a manual edit (of a question or of a module) lies in [0.1, 5.0],
\* and so every stored question weight and module weight lies in [0.1, 5.0]
C12_WeightBounds ==
    /\ \A i \in 1..Len(HistoryRows) :
          InBounds(HistoryRows[i].new_value,
                   IF HistoryRows[i].reason.text = "manual" THEN 5000 ELSE 3000)
    /\ \A i \in 1..Len(questions_json) : InBounds(WeightOf(questions_json[i]), 5000)
    /\ \A m \in DOMAIN config_json.module_weights :
          InBounds(config_json.module_weights[m], 5000)
    /\ \A i \in 1..Len(engine_instance.questions) :
          InBounds(WeightOf(engine_instance.questions[i]), 5000)
    /\ PendingInBounds

\* a manual edit was cut down to 5.0, and a calibration run then cut the same
\* weight down to 3.0
C12_Witness ==
    /\ \E i \in 1..Len(db.weight_history) :
          /\ db.weight_history[i].reason.text = "auto-calibration"
          /\ db.weight_history[i].old_value = 5000
          /\ db.weight_history[i].new_value = 3000
    /\ \E i \in 1..Len(questions_json) : WeightOf(questions_json[i]) = 3000

\* C13: with fewer than MIN_SAMPLES incidents of a terminal resolution, the
\* run_calibration of a manual_calibration request returns status "skipped"
\* with 0 adjustments, and no step of the request changes the stored
\* question weights or adds a WeightHistory or CalibrationLog row
C13_SkipFloor ==
    [][ (admin # NoneValue /\ admin.op = "manual_calibration" /\ Len(Resolved) < MIN_SAMPLES)
        => /\ questions_json' = questions_json
           /\ db'.weight_history = db.weight_history
           /\ db'.calibration_logs = db.calibration_logs
           /\ Rows(session', "weight_history") = <<>>
           /\ Rows(session', "calibration_logs") = <<>>
           /\ admin.pc = "run_calibration"
                 => admin'.cal = [status |-> "skipped", adjustments |-> 0] ]_vars

\* a calibration request over four resolved and two unresolved incidents has
\* returned "skipped"
C13_Witness ==
    /\ Len(Resolved) = MIN_SAMPLES - 1
    /\ Len(db.incidents) > Len(Resolved)
    /\ admin = NoneValue
    /\ result = [response |-> "manual_calibration",
                 cal |-> [status |-> "skipped", adjustments |-> 0]]
    /\ db.calibration_logs = <<>>
    /\ db.weight_history = <<>>

\* the latest committed request was a calibration run that completed
AfterCompletedRun ==
    /\ db.calibration_logs # <<>>
    /\ db.audit_log # <<>>
    /\ db.audit_log[Len(db.audit_log)].action = "manual_calibration"

\* C14: a calibration run that follows a completed calibration run, with the
\* ledger unchanged and nothing else in between, changes no question weight
\* and adds no WeightHistory row
C14_RerunIsNoOp ==
    (admin # NoneValue /\ admin.op = "manual_calibration" /\ admin.pc = "save"
        /\ AfterCompletedRun)
    => /\ admin.cal.adjustments = 0
       /\ admin.data = questions_json
       /\ Rows(session, "weight_history") = <<>>

\* the weight stored for a question id in questions.json, as a set
StoredWeights(questions, qid) ==
    {WeightOf(questions[i]) : i \in {k \in 1..Len(questions) : questions[k].id = qid}}

\* C16: when a persistence fault ends a calibration run, the run's weight
\* changes are stored together with their WeightHistory rows or not at all:
\* no WeightHistory row that the fault discards describes a weight that is
\* in questions.json
C16_AllOrNothing ==
    [][ (admin # NoneValue /\ admin.op = "manual_calibration" /\ faults' # faults)
        => \A i \in 1..Len(session) :
              session[i].table = "weight_history"
                 => session[i].new_value \notin StoredWeights(questions_json', session[i].question_id)
      ]_vars

\* the indices of the questions whose stored weight differs between two
\* versions of the catalog
Changed(old, new) == {k \in 1..Len(new) : WeightOf(old[k]) # WeightOf(new[k])}

\* the step is the commit of a calibration run that passed the gate
RunCommits ==
    /\ admin # NoneValue /\ admin.op = "manual_calibration" /\ admin.pc = "log"
    /\ admin' # NoneValue /\ admin'.pc = "reload"

\* C17: a calibration run that passes the gate and commits appends exactly
\* one CalibrationLog row, also when it changed no weight; total_incidents is
\* the number of resolved incidents, true_positives + false_positives is
\* total_incidents, adjustments_made is the number of weights the run
\* changed; no other step appends or removes a CalibrationLog row
C17_OneLogPerRun ==
    [][ IF RunCommits
        THEN /\ Len(db'.calibration_logs) = Len(db.calibration_logs) + 1
             /\ \E log \in {db'.calibration_logs[Len(db'.calibration_logs)]} :
                /\ db'.calibration_logs = Append(db.calibration_logs, log)
                /\ log.total_incidents = Len(Resolved)
                /\ log.false_positives =
                      Cardinality({i \in 1..Len(db.incidents) : db.incidents[i].resolution = "fp"})
                /\ log.true_positives + log.false_positives = log.total_incidents
                /\ log.adjustments_made = Cardinality(Changed(admin.before, questions_json))
                /\ admin'.cal.status = "completed"
        ELSE /\ db'.calibration_logs = db.calibration_logs
             /\ (admin # NoneValue /\ admin.pc = "run_calibration"
                    /\ Len(Resolved) >= MIN_SAMPLES)
                 => admin'.pc = "save" /\ admin'.cal.status = "running" ]_vars

\* a run over three true and three false positives has committed its log with
\* no weight changed, after an earlier run's log
C17_Witness ==
    /\ admin # NoneValue /\ admin.op = "manual_calibration" /\ admin.pc = "reload"
    /\ admin.cal.status = "completed"
    /\ Len(db.calibration_logs) = 2
    /\ db.calibration_logs[2] =
          [table |-> "calibration_logs", total_incidents |-> 6, true_positives |-> 3,
           false_positives |-> 3, false_negatives |-> 0, adjustments_made |-> 0]
    /\ db.weight_history = <<>>

\* the rows the step appends to the weight_history table
AppendedHistory == SubSeq(db'.weight_history, Len(db.weight_history) + 1, Len(db'.weight_history))

\* C18: at the commit of a calibration run, every question whose weight the
\* run changed has exactly one appended WeightHistory row, with the weight
\* before as old_value and the weight now in questions.json as new_value; a
\* question whose weight was not changed has none; and the adjustment count
\* of the run is the number of appended rows
C18_OneEntryPerChange ==
    [][ RunCommits =>
        /\ db'.weight_history = db.weight_history \o AppendedHistory
        /\ admin.data = questions_json
        /\ \A k \in 1..Len(questions_json) :
              Cardinality({i \in 1..Len(AppendedHistory) :
                              AppendedHistory[i].question_id = questions_json[k].id})
                 = IF k \in Changed(admin.before, questions_json) THEN 1 ELSE 0
        /\ \A i \in 1..Len(AppendedHistory) :
              \E k \in Changed(admin.before, questions_json) :
                 /\ AppendedHistory[i].question_id = questions_json[k].id
                 /\ AppendedHistory[i].old_value = WeightOf(admin.before[k])
                 /\ AppendedHistory[i].new_value = WeightOf(questions_json[k])
        /\ admin'.cal.adjustments = Len(AppendedHistory)
        /\ db'.calibration_logs[Len(db'.calibration_logs)].adjustments_made = Len(AppendedHistory)
      ]_vars

\* a run over five true positives has committed: q_001, answered in all five,
\* went from 1.0 to 1.08 with one row; q_002, answered in four, kept its weight
C18_Witness ==
    /\ admin # NoneValue /\ admin.op = "manual_calibration" /\ admin.pc = "reload"
    /\ admin.cal.status = "completed" /\ admin.cal.adjustments = 1
    /\ Len(db.weight_history) = 1
    /\ db.weight_history[1].question_id = "q_001"
    /\ db.weight_history[1].old_value = 1000 /\ db.weight_history[1].new_value = 1080
    /\ StoredWeights(questions_json, "q_001") = {1080}
    /\ StoredWeights(questions_json, "q_002") = {1000}

\* the tiers whose range holds an integer score
TiersHolding(thresholds, s) ==
    {i \in 1..Len(thresholds) : thresholds[i].min <= s /\ s <= thresholds[i].max}

\* the integer scores at which a range begins or has just ended: between two
\* of them in a row the set of tiers holding a score does not change
Boundaries(thresholds) ==
    UNION {{thresholds[i].min, thresholds[i].max + 1} : i \in 1..Len(thresholds)}

\* every integer score from the lowest tier's min to the highest tier's max
\* lies in exactly one tier
Partitioned(thresholds) ==
    \A s \in Boundaries(thresholds) :
        (thresholds[1].min <= s /\ s <= thresholds[Len(thresholds)].max)
            => Cardinality(TiersHolding(thresholds, s)) = 1

\* C19: the ranges of the tiers, in the stored configuration and in the
\* engine, never overlap and leave no gap: every integer score between the
\* lowest tier's min and the highest tier's max lies in exactly one tier
C19_ThresholdPartition ==
    /\ Partitioned(config_json.thresholds)
    /\ Partitioned(engine_instance.thresholds)

\* every read the evaluate call has made so far returned the field of cfg
ReadsFrom(frame, cfg) ==
    \A k \in 1..Len(frame.seen) : frame.seen[k] = cfg[EVALUATE_READS[k]]

MaxRuns == 40

Repeat(x, n) == [i \in 1..n |-> x]

\* tp true-positive and fp false-positive incidents, each answering qids
Outcomes(tp, fp, qids) ==
    Repeat(Incident("tp_resolved", qids), tp) \o Repeat(Incident("fp", qids), fp)

\* six incidents on one question, five true positives and one false positive
LedgerScenarioD == Outcomes(5, 1, <<"q_001">>)

\* eight true and seven false positives: 0.08 * error_rate is 0.00533
LedgerNarrow == Outcomes(8, 7, <<"q_001">>)

\* five false positives
LedgerFalsePositives == Outcomes(0, 5, <<"q_001">>)

\* the catalog whose questions with a "weight" hold w; q_003 has none
StartCatalog(w) ==
    [k \in 1..Len(QuestionsUnit) |->
        IF "weight" \in DOMAIN QuestionsUnit[k] THEN WithWeight(QuestionsUnit[k], w)
        ELSE QuestionsUnit[k]]

Start(ledger, w) == [ledger |-> ledger, weight |-> w]

\* the ledgers with the weights the questions hold before the first run:
\* as shipped, as earlier runs left them, or as update_question_weight set
\* them (any multiple of 0.001 from 0.1 to 5.0)
CalibrationStarts ==
    { Start(LedgerScenarioD, 1000), Start(LedgerScenarioD, 5000),
      Start(LedgerTruePositives, 1000), Start(LedgerTruePositives, 2996),
      Start(LedgerTruePositives, 3004), Start(LedgerTruePositives, 2995),
      Start(LedgerMixed, 150), Start(LedgerFalsePositives, 3100),
      Start(LedgerBalanced, 1000), Start(LedgerBalanced, 4200),
      Start(LedgerNarrow, 1000), Start(LedgerNarrow, 300),
      Start(LedgerFalsePositives, 105), Start(LedgerFalsePositives, 106),
      Start(LedgerFalsePositives, 5000),
      Start(LedgerFew, 1000) }

InitCalibration ==
    /\ \E s \in CalibrationStarts :
          /\ engine_instance = [ServerConfig EXCEPT !.questions = StartCatalog(s.weight)]
          /\ db = [EmptyDb EXCEPT !.incidents = s.ledger]
    /\ call = [op |-> "none"]
    /\ result = NoneValue
    /\ AtRest

\* the calibration requests, one after another
NextCalibration ==
    \/ ManualCalibration(MaxRuns)
    \/ run_calibration
    \/ _save_json
    \/ log_and_commit
    \/ reload
    \/ assign_field
    \/ audit_and_commit

SpecCalibration == InitCalibration /\ [][NextCalibration]_vars

\* the run is abandoned before it calls _save_json: the query (line 36),
\* _load_json (lines 71-72) or the pass raises, and get_db closes the
\* session with the rows the pass added
abandon ==
    /\ CanRun("admin")
    /\ admin # NoneValue
    /\ admin.op = "manual_calibration"
    /\ admin.pc \in {"run_calibration", "save"}
    /\ faults < MaxFaults
    /\ faults' = faults + 1
    /\ session' = <<>>
    /\ result' = [raised |-> "Exception", response |-> admin.op, at |-> admin.pc]
    /\ admin' = NoneValue
    /\ loop' = "idle"
    /\ UNCHANGED <<engine_instance, call, questions_json, config_json, db, client, requests>>
    /\ UNCHANGED limiter

\* calibration requests, some of them abandoned
NextAbort == NextCalibration \/ abandon

SpecAbort == InitCalibration /\ [][NextAbort]_vars


(***************************************************************************)
(* Properties of the calibration arithmetic and of repeated runs.          *)
(***************************************************************************)
\* the answers to question qid in the incidents with one of the resolutions
Occurrences(qid, resolutions) ==
    Cardinality(
        {p \in UNION {{<<i, j>> : j \in 1..Len(db.incidents[i].answers)} :
                        i \in 1..Len(db.incidents)} :
            /\ db.incidents[p[1]].resolution \in resolutions
            /\ db.incidents[p[1]].answers[p[2]].question_id = qid})

TruePositives(qid) == Occurrences(qid, {"tp_resolved", "tp_escalated"})
FalsePositives(qid) == Occurrences(qid, {"fp"})
Recorded(qid) == TruePositives(qid) + FalsePositives(qid)

\* the adjustment pass of a calibration run is over: admin.before is the
\* catalog the run loaded, admin.data the catalog it saves, and the session
\* holds the rows it added
PassDone ==
    /\ admin # NoneValue /\ admin.op = "manual_calibration"
    /\ admin.pc \in {"save", "log"}

\* the WeightHistory rows the running handler added for a question
RowsOf(qid) ==
    SelectSeq(Rows(session, "weight_history"), LAMBDA r : r.question_id = qid)

\* count times clamp(old + 0.08 * (tp - fp) / count, 0.1, 3.0), in
\* thousandths, as an exact integer
Target(old, tp, fp) ==
    Max({100 * (tp + fp), Min({3000 * (tp + fp), old * (tp + fp) + 80 * (tp - fp)})})

\* the multiples of 0.001 nearest to x / count
Nearest(x, count) ==
    {w \in ((x \div count) - 1)..((x \div count) + 1) : 2 * Abs(w * count - x) <= count}

\* whether the run committed a change of question k: its weight and its row
Committed(k, old, w) ==
    /\ WeightOf(admin.data[k]) = w
    /\ Len(RowsOf(admin.before[k].id)) = 1
    /\ RowsOf(admin.before[k].id)[1].old_value = old
    /\ RowsOf(admin.before[k].id)[1].new_value = w
    /\ RowsOf(admin.before[k].id)[1].change_type = "question_weight"

LeftAsItWas(k) ==
    /\ admin.data[k] = admin.before[k]
    /\ RowsOf(admin.before[k].id) = <<>>

\* C21: at the end of the adjustment pass of a run, for every question of
\* the catalog with at least MIN_SAMPLES recorded answers among the resolved
\* incidents, new_weight is clamp(old_weight + 0.08 * (tp_rate - fp_rate),
\* 0.1, 3.0) rounded to 3 places (within half a thousandth of the exact
\* value); the change is committed (weight written, one WeightHistory row)
\* when |new_weight - old_weight| > 0.005 and otherwise the question is left
\* as it was; and the catalog written to questions.json is that catalog
C21_UpdateRule ==
    PassDone =>
        /\ admin.pc = "log" => questions_json = admin.data
        /\ \A k \in 1..Len(admin.before) :
              LET qid == admin.before[k].id
                  old == WeightOf(admin.before[k])
              IN  Recorded(qid) >= MIN_SAMPLES =>
                     \E w \in Nearest(Target(old, TruePositives(qid), FalsePositives(qid)),
                                      Recorded(qid)) :
                        /\ Committed(k, old, w) \/ LeftAsItWas(k)
                        /\ Abs(w - old) > 5 => Committed(k, old, w)
                        /\ Abs(w - old) < 5 => LeftAsItWas(k)
                        /\ Abs(w - old) = 5 =>
                              (Committed(k, old, w) <=>
                                  FLess(FromDec(5, 3),
                                        FAbs(FSub(FromDec(w, 3), FromDec(old, 3)))))

\* a run over six answers to q_001, five on true positives and one on a
\* false positive, has written 1.0 + 0.053 with its row
C21_Witness ==
    /\ PassDone /\ admin.pc = "log"
    /\ Recorded("q_001") = 6 /\ TruePositives("q_001") = 5
    /\ StoredWeights(admin.before, "q_001") = {1000}
    /\ StoredWeights(questions_json, "q_001") = {1053}
    /\ RowsOf("q_001") =
          << WeightHistory("q_001", "red", "question_weight", 1000, 1053,
                           [text |-> "auto-calibration", tp_rate |-> 83, fp_rate |-> 17]) >>

\* the questions of the loaded catalog that the run calibrates
Calibrated == {k \in 1..Len(admin.before) : Recorded(admin.before[k].id) >= MIN_SAMPLES}

\* C22: in a calibration run, a question with more true-positive than
\* false-positive occurrences (error_rate > 0) does not end with a lower
\* weight than it had, and one with fewer (error_rate < 0) does not end
\* with a higher weight, whatever weight it held before the run
C22_Direction ==
    PassDone =>
        \A k \in Calibrated :
            /\ TruePositives(admin.before[k].id) > FalsePositives(admin.before[k].id)
                  => WeightOf(admin.data[k]) >= WeightOf(admin.before[k])
            /\ TruePositives(admin.before[k].id) < FalsePositives(admin.before[k].id)
                  => WeightOf(admin.data[k]) <= WeightOf(admin.before[k])

\* C23: in a single calibration run the weight of a calibrated question
\* changes by at most LEARNING_RATE = 0.08 (80 thousandths once rounded to 3
\* places), whatever weight it held before the run
C23_BoundedStep ==
    PassDone =>
        \A k \in Calibrated : Abs(WeightOf(admin.data[k]) - WeightOf(admin.before[k])) <= 80

\* the question ids that the answers of the resolved incidents name
AnsweredIds ==
    UNION {{db.incidents[i].answers[j].question_id : j \in 1..Len(db.incidents[i].answers)} :
              i \in {n \in 1..Len(db.incidents) :
                        db.incidents[n].resolution \in TerminalResolutions}}

CatalogIds(questions) == {questions[k].id : k \in 1..Len(questions)}

\* C24: at the commit of a calibration run that passed the outer gate, a
\* question with fewer than MIN_SAMPLES recorded answers among the resolved
\* incidents has the stored entry it had before the run and no appended
\* WeightHistory row, and a question id of the ledger that is absent from
\* the catalog has no appended row and no entry in questions.json
C24_SampleFloor ==
    [][ RunCommits =>
        /\ Len(Resolved) >= MIN_SAMPLES
        /\ Len(questions_json') = Len(admin.before)
        /\ \A k \in 1..Len(admin.before) :
              Recorded(admin.before[k].id) < MIN_SAMPLES =>
                 /\ questions_json'[k] = admin.before[k]
                 /\ \A i \in 1..Len(AppendedHistory) :
                       AppendedHistory[i].question_id # admin.before[k].id
        /\ \A qid \in AnsweredIds \ CatalogIds(admin.before) :
              /\ qid \notin CatalogIds(questions_json')
              /\ \A i \in 1..Len(AppendedHistory) : AppendedHistory[i].question_id # qid
      ]_vars

\* a run over five true positives has committed: q_002, answered in four of
\* them with error rate 1, kept 1.0; q_900, answered in all five, is in no
\* catalog and has no row; q_001, answered in all five, was adjusted
C24_Witness ==
    /\ admin # NoneValue /\ admin.op = "manual_calibration" /\ admin.pc = "reload"
    /\ admin.cal.status = "completed"
    /\ Recorded("q_002") = MIN_SAMPLES - 1 /\ TruePositives("q_002") = MIN_SAMPLES - 1
    /\ Recorded("q_900") = MIN_SAMPLES
    /\ StoredWeights(questions_json, "q_002") = {1000}
    /\ StoredWeights(questions_json, "q_900") = {}
    /\ {db.weight_history[i].question_id : i \in 1..Len(db.weight_history)} = {"q_001"}

\* a calibration run is under way and has not yet called _save_json
BeforeWrite ==
    /\ admin # NoneValue /\ admin.op = "manual_calibration"
    /\ admin.pc \in {"run_calibration", "save"}

\* C25: no step that a calibration run takes before questions.json is
\* written, its abandonment included, changes the stored question weights,
\* the WeightHistory table or the CalibrationLog table (nor any other
\* committed row or document), and abandoning the run leaves none of its
\* rows in the session for a later commit
C25_Abortable ==
    [][ (BeforeWrite /\ ~(admin' # NoneValue /\ admin'.pc = "log"))
        => /\ questions_json' = questions_json
           /\ config_json' = config_json
           /\ db' = db
           /\ engine_instance' = engine_instance
           /\ admin' = NoneValue => session' = <<>> ]_vars

\* the first run over five true positives was abandoned when its pass had
\* set q_001 to 1.08 in memory: questions.json still holds 1.0 and the
\* tables have no row
C25_Witness ==
    /\ admin = NoneValue /\ requests = 1 /\ faults = 1
    /\ result = [raised |-> "Exception", response |-> "manual_calibration", at |-> "save"]
    /\ TruePositives("q_001") = MIN_SAMPLES /\ FalsePositives("q_001") = 0
    /\ questions_json = StartCatalog(1000)
    /\ db.weight_history = <<>> /\ db.calibration_logs = <<>>
    /\ session = <<>>

\* the committed rows of calibration runs for a question, oldest first
RunRows(qid) ==
    SelectSeq(db.weight_history,
              LAMBDA r : r.question_id = qid /\ r.reason.text = "auto-calibration")

\* the runs never moved a question up in one run and down in another
OneDirection ==
    \A qid \in CatalogIds(questions_json) :
        LET rows == RunRows(qid)
        IN  \A i \in 1..(Len(rows) - 1) :
                (rows[i].new_value > rows[i].old_value)
                    <=> (rows[i + 1].new_value > rows[i + 1].old_value)

\* once a run has made zero adjustments, so has the run after it
StaysFixed ==
    \A i \in 1..(Len(db.calibration_logs) - 1) :
        db.calibration_logs[i].adjustments_made = 0
            => db.calibration_logs[i + 1].adjustments_made = 0

\* the pass of a run has ended with zero adjustments
ZeroPass == PassDone /\ admin.cal.adjustments = 0

\* every committed row of a run moved its question by 0.005 or more
MovesBeyondDeadband ==
    \A qid \in CatalogIds(questions_json) :
        \A i \in 1..Len(RunRows(qid)) :
            Abs(RunRows(qid)[i].new_value - RunRows(qid)[i].old_value) >= 5

\* the pass of the last run the server accepts has made zero adjustments
Converged == (PassDone /\ requests = MaxRuns) => admin.cal.adjustments = 0

\* a weight within 0.005 of the clamp bound 0.1 or 3.0
AtBound(w) == Abs(w - 100) <= 5 \/ Abs(w - 3000) <= 5

\* the calibrated questions for which 0.08 * |error_rate| is more than
\* tenths / 10000
StepExceeds(tenths) ==
    {k \in Calibrated :
        800 * Abs(TruePositives(admin.before[k].id) - FalsePositives(admin.before[k].id))
            > tenths * Recorded(admin.before[k].id)}

\* C27 as stated: runs repeated over an unchanged ledger move each
\* calibrated question's weight in one direction only, after finitely many
\* runs (each moving a weight by 0.005 or more; MaxRuns at most from the
\* weights started from) a run makes zero adjustments and so does every
\* later run, and then every question whose step 0.08 * |error_rate|
\* exceeds the deadband 0.005 has a weight within the deadband of the clamp
\* bound 0.1 or 3.0
C27_FixpointAtBound ==
    /\ OneDirection /\ MovesBeyondDeadband
    /\ StaysFixed /\ Converged
    /\ ZeroPass => \A k \in StepExceeds(50) : AtBound(WeightOf(admin.before[k]))

\* C27 amended: the same, for every question whose step 0.08 * |error_rate|
\* exceeds 0.0055, the deadband plus the half thousandth that rounding the
\* new weight to 3 places can take off the step
C27_FixpointAtBoundRounded ==
    /\ OneDirection /\ MovesBeyondDeadband
    /\ StaysFixed /\ Converged
    /\ ZeroPass => \A k \in StepExceeds(55) : AtBound(WeightOf(admin.before[k]))

\* 38 runs took q_001 from 1.0 to 3.0 in steps of 0.053 (the last one cut
\* by the clamp), and the pass of the 39th run has made no adjustment
C27_Witness ==
    /\ ZeroPass
    /\ Len(db.calibration_logs) = 38
    /\ Len(RunRows("q_001")) = 38
    /\ RunRows("q_001")[1].old_value = 1000 /\ RunRows("q_001")[1].new_value = 1053
    /\ RunRows("q_001")[38].new_value = 3000
    /\ StoredWeights(questions_json, "q_001") = {3000}
    /\ StepExceeds(55) # {}

(***************************************************************************)
(* The engine after an admin request.                                      *)
(***************************************************************************)
\* the latest admin request ran to its response and no request is under way
Completed(op) ==
    /\ admin = NoneValue
    /\ result # NoneValue
    /\ "raised" \notin DOMAIN result
    /\ result.response = op

AdminHandlers ==
    {"update_module_weights", "update_thresholds", "update_question_weight",
     "manual_calibration"}

\* C26: when update_module_weights, update_thresholds, update_question_weight
\* or manual_calibration has completed, every field of the engine that
\* evaluate reads (module weights, thresholds, multiplier rules, hard rules,
\* recommendations, questions) is what config_engine.json and questions.json
\* hold, also when an earlier request failed between its write and its reload
C26_EngineMatchesDisk ==
    \A op \in AdminHandlers :
        Completed(op) =>
            \A k \in 1..Len(EVALUATE_READS) :
                engine_instance[EVALUATE_READS[k]] = DiskConfig[EVALUATE_READS[k]]

\* a manual edit set q_001 to 5.0 and a calibration run then brought it to
\* 3.0: both completed, and the engine holds the 3.0 of questions.json
C26_Witness ==
    /\ Completed("manual_calibration")
    /\ Len(db.audit_log) = 2
    /\ db.audit_log[1].action = "update_question_weight"
    /\ StoredWeights(questions_json, "q_001") = {3000}
    /\ StoredWeights(engine_instance.questions, "q_001") = {3000}
    /\ engine_instance # ServerConfig

(***************************************************************************)
(* The audit trail of the question weights.                                *)
(***************************************************************************)
\* the committed 'question_weight' rows of a question, in creation order
QuestionRows(qid) ==
    SelectSeq(db.weight_history,
              LAMBDA r : r.change_type = "question_weight" /\ r.question_id = qid)

\* the question ids that committed 'question_weight' rows name
AuditedIds ==
    {db.weight_history[i].question_id :
        i \in {n \in 1..Len(db.weight_history) :
                 db.weight_history[n].change_type = "question_weight"}}

\* C28: when no request is in progress and no storage fault has occurred,
\* the 'question_weight' rows of every question form a chain in creation
\* order (each row's old_value is the new_value of the row before it), the
\* newest row's new_value is the weight stored in questions.json, and every
\* such row names a question of the catalog
C28_AuditChain ==
    (admin = NoneValue /\ faults = 0) =>
        /\ AuditedIds \subseteq CatalogIds(questions_json)
        /\ \A qid \in AuditedIds :
              LET rows == QuestionRows(qid)
              IN  /\ \A i \in 1..(Len(rows) - 1) : rows[i + 1].old_value = rows[i].new_value
                  /\ StoredWeights(questions_json, qid) = {rows[Len(rows)].new_value}

\* a calibration run moved q_001 from 1.0 to 1.08 and a manual edit then set
\* it to 5.0: two rows in a chain, the newest ending at the stored 5.0
C28_Witness ==
    /\ admin = NoneValue /\ faults = 0
    /\ Len(QuestionRows("q_001")) = 2
    /\ QuestionRows("q_001")[1].reason.text = "auto-calibration"
    /\ QuestionRows("q_001")[1].new_value = 1080
    /\ QuestionRows("q_001")[2].reason = ManualEdit
    /\ QuestionRows("q_001")[2].old_value = 1080
    /\ QuestionRows("q_001")[2].new_value = 5000
    /\ StoredWeights(questions_json, "q_001") = {5000}

(***************************************************************************)
(* Intake: POST /evaluar stores an incident with its answers, an analyst   *)
(* resolves incidents, and calibration runs over what was stored           *)
(* (form.py, calibration.py).                                              *)
(***************************************************************************)
MaxSubmissions == 2
MaxPasses == 1

\* the body of a POST /evaluar: analyst_name and the q_* fields
Form(analyst_name, answers) == [analyst_name |-> analyst_name, answers |-> answers]

FormScored == Form("ana", << [qid |-> "q_001", value |-> "yes"] >>)

\* "beto" picks the zero-score option of q_001 and a negative-score option;
\* "caro" an option no question has, an option without "score" and a
\* question of no catalog; "dani" the zero-score option of q_001 alone
IntakeForms ==
    { FormScored,
      Form("beto", << [qid |-> "q_001", value |-> "no"], [qid |-> "q_002", value |-> "yes"] >>),
      Form("caro", << [qid |-> "q_001", value |-> "maybe"], [qid |-> "q_003", value |-> "no"],
                      [qid |-> "q_900", value |-> "yes"] >>),
      Form("dani", << [qid |-> "q_001", value |-> "no"] >>) }

\* the IncidentAnswer rows added for result["answer_details"]
IncidentAnswers(details) ==
    [k \in 1..Len(details) |->
        [question_id |-> details[k].question_id, module |-> details[k].module,
         value |-> details[k].value, raw_score |-> details[k].raw_score,
         contribution |-> details[k].contribution]]

\* the Incident row of a submission, with its answers relationship
StoredIncident(res, analyst_name) ==
    [resolution     |-> "none",
     base_score     |-> res.base_score,
     final_score    |-> res.final_score,
     multiplier     |-> res.multiplier,
     classification |-> res.classification,
     hard_rule_id   |-> IF res.hard_rule = NoneValue THEN NoneValue ELSE [id |-> res.hard_rule.id],
     escalated      |-> res.classification \in {"critico", "brecha"},
     analyst_name   |-> analyst_name,
     answers        |-> IncidentAnswers(res.answer_details)]

\* four incidents submitted with FormScored on the shipped configuration
\* (q_001 "yes": 10 x 1.0 x 1.0, doubled by a multiplier rule, raised to
\* "brecha" by a hard rule) and resolved as true positives
IntakeLedger ==
    [i \in 1..(MIN_SAMPLES - 1) |->
        [resolution     |-> "tp_resolved",
         base_score     |-> 1000,
         final_score    |-> 2000,
         multiplier     |-> 2000,
         classification |-> "brecha",
         hard_rule_id   |-> [id |-> "hr_breach"],
         escalated      |-> TRUE,
         analyst_name   |-> FormScored.analyst_name,
         answers        |-> << [question_id |-> "q_001", module |-> "red", value |-> "yes",
                                raw_score |-> 10, contribution |-> 1000] >>]]

\* evaluar_submit from the evaluation of the form to the commit of the
\* incident; an exception of evaluate leaves the handler before any row
persist_incident(form) ==
    /\ loop = "idle"
    /\ Len(db.incidents) < Len(IntakeLedger) + MaxSubmissions
    /\ call' = [op |-> "evaluate", answers |-> form.answers]
    /\ result' = evaluate(engine_instance, form.answers)
    /\ db' = IF "raised" \in DOMAIN result' THEN db
             ELSE [db EXCEPT !.incidents =
                      Append(@, StoredIncident(result', form.analyst_name))]
    /\ UNCHANGED <<engine_instance, questions_json, config_json, session, loop, admin,
                   client, requests, faults>>
    /\ UNCHANGED limiter

\* the values of the "resolution" field that analysts post
Resolutions == {"fp", "tp_escalated", "ongoing"}

\* POST /incident/{incident_id}/resolve
resolve_incident(incident_id, resolution) ==
    /\ loop = "idle"
    /\ incident_id \in 1..Len(db.incidents)
    /\ db' = [Commit(<<AuditLog("resolve_incident")>>) EXCEPT
                !.incidents[incident_id] =
                    [@ EXCEPT !.resolution = resolution,
                              !.escalated = (resolution = "tp_escalated")]]
    /\ result' = [response |-> "resolve_incident"]
    /\ UNCHANGED <<engine_instance, call, questions_json, config_json, session, loop,
                   admin, client, requests, faults>>
    /\ UNCHANGED limiter

InitIntake ==
    /\ engine_instance = ServerConfig
    /\ call = [op |-> "none"]
    /\ result = NoneValue
    /\ db = [EmptyDb EXCEPT !.incidents = IntakeLedger]
    /\ AtRest

\* the incidents no analyst has resolved yet
OpenIncidents == {i \in 1..Len(db.incidents) : db.incidents[i].resolution = "none"}

\* submissions, the resolution of open incidents, and calibration runs
NextIntake ==
    \/ \E form \in IntakeForms : persist_incident(form)
    \/ \E i \in OpenIncidents, r \in Resolutions : resolve_incident(i, r)
    \/ ManualCalibration(MaxPasses)
    \/ run_calibration
    \/ _save_json
    \/ log_and_commit
    \/ reload
    \/ assign_field
    \/ audit_and_commit

SpecIntake == InitIntake /\ [][NextIntake]_vars

(***************************************************************************)
(* What a submission stores and what calibration counts.                   *)
(***************************************************************************)
\* the answers of a form whose question is in the catalog and whose option
\* is one of the question's options with a score other than 0
Scored(questions, answers) ==
    {i \in 1..Len(answers) :
        \E k \in 1..Len(questions) :
            /\ questions[k].id = answers[i].qid
            /\ \E o \in 1..Len(OptionsOf(questions[k])) :
                  /\ OptionsOf(questions[k])[o].value = answers[i].value
                  /\ "score" \in DOMAIN OptionsOf(questions[k])[o]
                  /\ OptionsOf(questions[k])[o].score # 0}

\* entries (answer_details or IncidentAnswer rows) hold one entry for each
\* scored answer of the form and nothing else
ExactlyScored(entries, answers) ==
    /\ Len(entries) = Cardinality(Scored(engine_instance.questions, answers))
    /\ \A i \in Scored(engine_instance.questions, answers) :
          \E d \in 1..Len(entries) :
              /\ entries[d].question_id = answers[i].qid
              /\ entries[d].value = answers[i].value
              /\ entries[d].raw_score # 0

\* the form an incident was submitted with: the forms differ in analyst_name
FormOf(incident) == CHOOSE f \in IntakeForms : f.analyst_name = incident.analyst_name

\* the resolved incidents, of the given resolutions, whose form has a scored
\* answer to question qid
ScoredOccurrences(qid, resolutions) ==
    Cardinality(
        {i \in 1..Len(db.incidents) :
            /\ db.incidents[i].resolution \in resolutions
            /\ \E a \in Scored(engine_instance.questions, FormOf(db.incidents[i]).answers) :
                  FormOf(db.incidents[i]).answers[a].qid = qid})

\* C29: answer_details of a submission holds exactly one entry for each
\* answer whose question is in the catalog and whose option is recognized
\* with a non-zero score, and no other entry; the IncidentAnswer rows of
\* every stored incident are those entries of its form, so a recognized
\* option with score 0 is never stored; and a calibration run counts, for
\* each question, the scored answers of the resolved incidents only: below
\* MIN_SAMPLES of them the question is left as it was, from MIN_SAMPLES on
\* its new weight is computed from their true and false positives
C29_ScoredAnswersOnly ==
    /\ (call.op = "evaluate" /\ result # NoneValue /\ "answer_details" \in DOMAIN result)
          => ExactlyScored(result.answer_details, call.answers)
    /\ \A i \in 1..Len(db.incidents) :
          ExactlyScored(db.incidents[i].answers, FormOf(db.incidents[i]).answers)
    /\ PassDone =>
          \A k \in 1..Len(admin.before) :
              LET qid == admin.before[k].id
                  old == WeightOf(admin.before[k])
                  tp  == ScoredOccurrences(qid, {"tp_resolved", "tp_escalated"})
                  fp  == ScoredOccurrences(qid, {"fp"})
              IN  IF tp + fp < MIN_SAMPLES THEN LeftAsItWas(k)
                  ELSE \E w \in Nearest(Target(old, tp, fp), tp + fp) :
                          /\ Committed(k, old, w) \/ LeftAsItWas(k)
                          /\ Abs(w - old) > 5 => Committed(k, old, w)

\* "beto" chose the zero-score option of q_001; the incident was stored with
\* the one row of q_002 and resolved as a false positive; the run that
\* followed found five resolved incidents but four answers to q_001 and
\* left its weight at 1.0
C29_Witness ==
    /\ PassDone
    /\ admin.cal.adjustments = 0
    /\ Len(db.incidents) = 5
    /\ db.incidents[5].analyst_name = "beto"
    /\ db.incidents[5].resolution = "fp"
    /\ Len(db.incidents[5].answers) = 1
    /\ db.incidents[5].answers[1].question_id = "q_002"
    /\ db.incidents[5].answers[1].raw_score = -4
    /\ Len(Resolved) = 5
    /\ StoredWeights(admin.data, "q_001") = {1000}
    /\ db.incidents[1] =
          [StoredIncident(evaluate(ServerConfig, FormScored.answers), FormScored.analyst_name)
              EXCEPT !.resolution = "tp_resolved"]

(***************************************************************************)
(* The rate limiter of POST /evaluar (rate_limit.py).                      *)
(***************************************************************************)
_WINDOW_SECONDS == 60
_MAX_REQUESTS == 20

MaxCalls == 4
MaxElapsed == 60

\* the seconds between two readings of the clock
ClockStep == 20

\* n calls admitted at time t
Burst(n, t) == [i \in 1..n |-> t]

\* the bucket of a host when the calls modelled begin: empty, one short of
\* full or full with entries 59 seconds old, full with entries 60 seconds
\* old, and one short of full after two bursts
Prefills ==
    { <<>>, Burst(19, 41), Burst(20, 41), Burst(20, 40), Burst(10, 41) \o Burst(9, 81) }

\* the access log lines of the admitted calls that filled the buckets, in
\* the order of their times
LogOf(buckets) ==
    LET entries == UNION {{<<h, i>> : i \in 1..Len(buckets[h])} : h \in ClientHosts}
        Earlier(a, b) ==
            \/ buckets[a[1]][a[2]] < buckets[b[1]][b[2]]
            \/ /\ buckets[a[1]][a[2]] = buckets[b[1]][b[2]]
               /\ \/ a[1] = b[1] /\ a[2] < b[2]
                  \/ a[1] # b[1] /\ a[1] = "10.0.0.1"
        Rank(e) == 1 + Cardinality({a \in entries : Earlier(a, e)})
    IN  [p \in 1..Cardinality(entries) |->
            LET e == CHOOSE a \in entries : Rank(a) = p
            IN  [host |-> e[1], at |-> buckets[e[1]][e[2]], status |-> 200]]

\* the timestamps kept by the eviction as the window is closed on its old side
Evicted_Closed(bucket, window_start) == SelectSeq(bucket, LAMBDA t : t >= window_start)

\* [t for t in _buckets[ip] if t > window_start]
Evicted(bucket, window_start) == SelectSeq(bucket, LAMBDA t : t > window_start)

\* the dependency of POST /evaluar, for a request of the given host
rate_limit_evaluar(ip) ==
    /\ loop = "idle"
    /\ requests < MaxCalls
    /\ requests' = requests + 1
    /\ LET window_start == now - _WINDOW_SECONDS
           bucket       == Evicted(_buckets[ip], window_start)
       IN  IF Len(bucket) >= _MAX_REQUESTS
           THEN /\ _buckets' = [_buckets EXCEPT ![ip] = bucket]
                /\ result' = [raised |-> "HTTPException", status_code |-> 429,
                              retry_after |-> Max({1, _WINDOW_SECONDS - (now - bucket[1])})]
                /\ access_log' = Append(access_log, [host |-> ip, at |-> now, status |-> 429])
           ELSE /\ _buckets' = [_buckets EXCEPT ![ip] = Append(bucket, now)]
                /\ result' = NoneValue
                /\ access_log' = Append(access_log, [host |-> ip, at |-> now, status |-> 200])
    /\ UNCHANGED <<engine_instance, call, questions_json, config_json, db, session, loop,
                   admin, client, faults, now>>

\* time passes between two requests
clock_advances ==
    /\ now + ClockStep <= ClockStart + MaxElapsed
    /\ now' = now + ClockStep
    /\ UNCHANGED <<engine_instance, call, result, server, _buckets, access_log>>

InitLimiter ==
    /\ engine_instance = ServerConfig
    /\ call = [op |-> "none"]
    /\ result = NoneValue
    /\ db = EmptyDb
    /\ questions_json = engine_instance.questions
    /\ config_json = ConfigOf(engine_instance)
    /\ session = <<>> /\ loop = "idle" /\ admin = NoneValue /\ client = NoneValue
    /\ requests = 0 /\ faults = 0
    /\ now = ClockStart
    /\ _buckets \in [ClientHosts -> Prefills]
    /\ access_log = LogOf(_buckets)

NextLimiter ==
    \/ \E ip \in ClientHosts : rate_limit_evaluar(ip)
    \/ clock_advances

SpecLimiter == InitLimiter /\ [][NextLimiter]_vars

(***************************************************************************)
(* Properties of the rate limiter, stated on the access log.               *)
(***************************************************************************)
\* the calls of a host that the log shows admitted in the window (from, to]
AdmittedIn(log, host, from, to) ==
    {i \in 1..Len(log) :
        /\ log[i].host = host /\ log[i].status = 200
        /\ log[i].at > from /\ log[i].at <= to}

\* the log up to, and without, its line i
Before(i) == SubSeq(access_log, 1, i - 1)

\* the times of the calls in the log
CallTimes == {access_log[i].at : i \in 1..Len(access_log)}

\* C30: for every host (a) no window of _WINDOW_SECONDS holds more than
\* _MAX_REQUESTS admitted calls: neither a window (t - 60, t] that ends at
\* a call nor a window [t, t + 60) that begins at one, and every other
\* window holds a subset of the calls of one of these; (b) a call
\* is answered 429 exactly when _MAX_REQUESTS admitted calls of its host
\* lie in the window that ends at the call, whatever the other hosts and
\* the rejected calls did before it; (c) the bucket of the host records,
\* inside the current window, the admitted calls and no rejected one
C30_RateLimit ==
    /\ \A host \in ClientHosts, t \in CallTimes :
          /\ Cardinality(AdmittedIn(access_log, host, t - _WINDOW_SECONDS, t))
                <= _MAX_REQUESTS
          /\ Cardinality(AdmittedIn(access_log, host, t - 1, t + _WINDOW_SECONDS - 1))
                <= _MAX_REQUESTS
    /\ \A i \in 1..Len(access_log) :
          /\ access_log[i].status \in {200, 429}
          /\ access_log[i].status = 429 <=>
                Cardinality(AdmittedIn(Before(i), access_log[i].host,
                                       access_log[i].at - _WINDOW_SECONDS, access_log[i].at))
                    = _MAX_REQUESTS
    /\ \A host \in ClientHosts :
          \A t \in {c \in CallTimes : c > now - _WINDOW_SECONDS} :
              Cardinality({k \in 1..Len(_buckets[host]) : _buckets[host][k] = t})
                  = Cardinality(AdmittedIn(access_log, host, t - 1, t))

\* twenty calls of 10.0.0.1 were admitted 59 seconds before its call at 100
\* was rejected; a call without client address was admitted after that, and
\* 10.0.0.1 was admitted again at 120 although it had been rejected twice
C30_Witness ==
    /\ Len(access_log) = 24
    /\ Cardinality(AdmittedIn(access_log, "10.0.0.1", 40, 100)) = 20
    /\ access_log[21] = [host |-> "10.0.0.1", at |-> 100, status |-> 429]
    /\ access_log[22] = [host |-> "unknown", at |-> 100, status |-> 200]
    /\ access_log[23] = [host |-> "10.0.0.1", at |-> 100, status |-> 429]
    /\ access_log[24] = [host |-> "10.0.0.1", at |-> 120, status |-> 200]
====
